---- MODULE Spec2Model ----
(***************************************************************************)
(* A model of the analytical engine of mw-omega-orchestrator:              *)
(*   - run_monte_carlo and _format_monte_carlo_report (mw_orchestrator.py) *)
(*   - monte_carlo_simulation (demo/run_demo.py)                           *)
(*                                                                         *)
(* Numbers.  Money is held in thousandths of a dollar (milli-dollars) so   *)
(* that round(x, 2) is a real operation.  Probabilities and the            *)
(* concentration cap are held in hundredths, volatility in hundredths, a   *)
(* standard normal deviate z in tenths.  Exact decimal arithmetic stands   *)
(* for the binary floating point of the source.                            *)
(*                                                                         *)
(* The random generator.  random.seed(42) puts the generator at the start  *)
(* of one fixed stream of values; the model does not know the stream, so   *)
(* its entries are chosen when first produced and then remembered (tape):  *)
(* a reseed replays them.  The entries produced after the last reseed that *)
(* can happen are never replayed and are not remembered.                   *)
(***************************************************************************)
EXTENDS Integers, Sequences, FiniteSets, Bags, TLC

VARIABLES
    cfg,                       \* REVENUE_STREAMS, STOP_RULES, SIMULATION_MONTHS, SIMULATION_SCENARIOS
    entry,                     \* the entry point under execution
    calls,                     \* invocations of the entry point still to come
    returned,                  \* the values returned by the invocations so far
    gen,                       \* the module-level random generator
    drawn,                     \* the site of the most recent draw of run_monte_carlo
    pc,                        \* position in the running function
    scenario_id, month, sidx,  \* loop variables of run_monte_carlo
    cash_reserve, months_survived, liquidity_breaches, concentration_violations,
    month_revenue, month_by_stream, monthly_totals, stream_revenues,
    expense_log,               \* the monthly_expenses drawn so far in the scenario
    reserve_log,               \* the cash_reserve after each month so far in the scenario
    results,                   \* run_monte_carlo: results
    trial, doc_scores, demo_results,   \* monte_carlo_simulation
    report_in, report_out,     \* _format_monte_carlo_report applied to a given list
    deps,                      \* VENDOR_DEPENDENCIES
    nx,                        \* whether the networkx import succeeded
    G,                         \* run_dependency_graph: the DiGraph
    betweenness, closeness, in_degree, out_degree,
    spof_scores, true_spofs, critical_paths,
    edge_i,                    \* position of the edge loop in VENDOR_DEPENDENCIES["edges"]
    node_i,                    \* position of the scoring loop in G.nodes()
    src_i, dst_i,              \* positions of the two path loops in G.nodes()
    walk,                      \* all_simple_paths: the path under construction
    paths,                     \* the simple paths found for the current pair
    error,                     \* the exception that ended the run, if any
    argv,                      \* main: sys.argv[1:]
    exit_status,               \* main: the status of sys.exit, -1 while none was made
    handler,                   \* main: the handler the command was routed to
    tasks, scored,             \* decision_compress: its argument and its list
    docs,                      \* build_dependency_graph: the dict under construction
    doc_i,                     \* build_dependency_graph: position of its loop
    doc_from,                  \* a reader following depends_on links: the document opened first
    doc_at                     \* a reader following depends_on links: the document reached

cfgVars  == <<cfg, entry, calls>>
mcVars   == <<scenario_id, month, sidx, cash_reserve, months_survived,
              liquidity_breaches, concentration_violations, month_revenue,
              month_by_stream, monthly_totals, stream_revenues, expense_log, reserve_log, results>>
demoVars == <<trial, doc_scores, demo_results>>
repVars  == <<report_in, report_out>>
graphVars == <<deps, nx, G, betweenness, closeness, in_degree, out_degree, spof_scores,
               true_spofs, critical_paths, edge_i, node_i, src_i, dst_i, walk, paths, error>>
cliVars  == <<argv, exit_status, handler>>
utilVars == <<tasks, scored, docs, doc_i, doc_from, doc_at>>
vars     == <<cfgVars, returned, gen, drawn, pc, mcVars, demoVars, repVars, graphVars,
              cliVars, utilVars>>

(***************************************************************************)
(* Bounds of the model.                                                    *)
(***************************************************************************)
MaxMonths    == 3    \* SIMULATION_MONTHS ranges over 1..MaxMonths
MaxScenarios == 3    \* SIMULATION_SCENARIOS ranges over 1..MaxScenarios
MaxDraws     == 12   \* a run is admitted when it can draw at most this often
NumEntries   == 2    \* distinct values a draw can yield
MaxOther     == 1    \* draws other code consumes between two invocations
MaxDetDraws  == 6    \* as MaxDraws, for the runs that are invoked twice
MaxTrials    == 2    \* n_trials ranges over 1..MaxTrials
DemoDocs     == 2    \* documents scored per trial (39 in the demo)
MaxReportN   == 4    \* length of the result lists the report is applied to

Entries == 1..NumEntries

(***************************************************************************)
(* Program constants.                                                      *)
(***************************************************************************)
Milli             == 10 * 100      \* milli-dollars per dollar (unit of the model)
InsolvencyFloor   == -20000
ExpenseMean       == 5500
ExpenseStdev      == 500
ReportMonths      == 12            \* the literal of _format_monte_carlo_report
RampPerMonth      == 2             \* 0.02, in hundredths
RampCap           == 15            \* 0.15, in hundredths
HalfFactor        == 500           \* 0.5, in thousandths
ConcentrationCap  == 25            \* STOP_RULES["concentration_cap"], in hundredths
LiquidityFloor    == 50000         \* STOP_RULES["liquidity_floor"]
CatastrophicBelow == -10000        \* cluster thresholds of the report
StrugglingBelow   == 0
SurvivingBelow    == 50000
DemoMean          == 95
DemoStdev         == 3
DemoPassScore     == 85
DemoDeployRate    == 950           \* 0.95, in thousandths

(***************************************************************************)
(* Arithmetic helpers.                                                     *)
(***************************************************************************)
Max(a, b) == IF a >= b THEN a ELSE b
Min(a, b) == IF a <= b THEN a ELSE b

RECURSIVE SeqSum(_)
SeqSum(s) == IF s = << >> THEN 0 ELSE Head(s) + SeqSum(Tail(s))

RECURSIVE SeqMax(_)
SeqMax(s) == IF Len(s) = 1 THEN s[1] ELSE Max(Head(s), SeqMax(Tail(s)))

RECURSIVE SeqMin(_)
SeqMin(s) == IF Len(s) = 1 THEN s[1] ELSE Min(Head(s), SeqMin(Tail(s)))

\* round(x / d) to the nearest multiple of `unit`, ties to even (Python's round).
RoundDiv(x, d, unit) ==
    LET den == d * unit
        q   == x \div den
        r2  == 2 * (x - q * den)
    IN  IF r2 < den THEN q * unit
        ELSE IF r2 > den THEN (q + 1) * unit
        ELSE IF q % 2 = 0 THEN q * unit ELSE (q + 1) * unit

\* round(x, 2) of an amount in milli-dollars.
Round2(x) == RoundDiv(x, 1, 10)

(***************************************************************************)
(* The random generator.                                                   *)
(***************************************************************************)
\* (variant for C1: a seed call that leaves the generator where it is)
SeedNoReset(g) == g
\* random.seed(42): back to the start of the stream of the seed.
Seed(g) == [g EXCEPT !.pos = 0]

\* The entries the next draw can yield.
NextEntries == IF gen.pos < Len(gen.tape) THEN {gen.tape[gen.pos + 1]} ELSE Entries

\* The generator after yielding entry e.
Advance(g, e, remember) ==
    [pos  |-> g.pos + 1,
     tape |-> IF g.pos < Len(g.tape) \/ ~remember THEN g.tape ELSE Append(g.tape, e)]

\* random.random() for entry e, in hundredths: a value of [0, 1).
Uniform(e) == ((e - 1) * 62) % 100

\* The standard normal deviate of entry e, in tenths.
Deviate(e) == CASE e = 1 -> 100 [] e = 2 -> -100 [] e = 3 -> 0 [] OTHER -> 7 * (e - 3)

(***************************************************************************)
(* Configurations.  The module-level tables of the source are read at run  *)
(* time, so a run is determined by their values at the time of the call.   *)
(***************************************************************************)
\* The stream of the scenario example of the specification.
ExampleStream ==
    [monthly_base |-> 1000, monthly_upside |-> 1000, probability_active |-> 100, volatility |-> 0]
\* A dormant stream (monthly_base = 0), as "consulting" in REVENUE_STREAMS.
DormantStream ==
    [monthly_base |-> 0, monthly_upside |-> 2000, probability_active |-> 23, volatility |-> 5]
\* An active stream with an upside, as "kdp_books".
SteadyStream ==
    [monthly_base |-> 1000, monthly_upside |-> 3000, probability_active |-> 100, volatility |-> 5]
\* Streams that break the invariant monthly_upside >= monthly_base >= 0 or have
\* a negative probability or volatility: run_monte_carlo takes them as they are.
InvertedStream ==
    [monthly_base |-> 100, monthly_upside |-> 0, probability_active |-> 100, volatility |-> 10]
NegativeStream ==
    [monthly_base |-> 0, monthly_upside |-> 1000, probability_active |-> -10, volatility |-> -5]

Configurations ==
    { [streams |-> <<ExampleStream>>, liquidity_floor |-> 0, concentration_cap |-> ConcentrationCap],
      [streams |-> <<ExampleStream>>, liquidity_floor |-> LiquidityFloor, concentration_cap |-> ConcentrationCap],
      [streams |-> <<DormantStream>>, liquidity_floor |-> LiquidityFloor, concentration_cap |-> ConcentrationCap],
      [streams |-> <<SteadyStream, DormantStream>>, liquidity_floor |-> LiquidityFloor, concentration_cap |-> ConcentrationCap],
      [streams |-> <<InvertedStream>>, liquidity_floor |-> LiquidityFloor, concentration_cap |-> ConcentrationCap],
      [streams |-> <<NegativeStream>>, liquidity_floor |-> LiquidityFloor, concentration_cap |-> ConcentrationCap] }

\* The most draws a run can make: per stream an activation and a noise draw,
\* per month one expense draw.
WorstDraws(c, h, n) == n * h * (2 * Len(c.streams) + 1)

Runs(maxDraws) ==
    { [streams |-> c.streams, liquidity_floor |-> c.liquidity_floor,
       concentration_cap |-> c.concentration_cap, months |-> h, scenarios |-> n] :
      <<c, h, n>> \in { t \in Configurations \X (1..MaxMonths) \X (1..MaxScenarios) :
                        WorstDraws(t[1], t[2], t[3]) <= maxDraws } }

NumStreams == Len(cfg.streams)

(***************************************************************************)
(* run_monte_carlo: the pure parts.                                        *)
(***************************************************************************)
\* The probability (hundredths) that a stream is active in month m.
ActivationProbability(stream, m) ==
    IF stream.monthly_base > 0
    THEN stream.probability_active
    ELSE stream.probability_active + Min(m * RampPerMonth, RampCap)

IsActive(stream, m, e) == Uniform(e) < ActivationProbability(stream, m)

\* (variant for C4: without the outer max(0, ...))
RevenueUnclamped(stream, e) ==
    LET base   == stream.monthly_base * Milli
        upside == stream.monthly_upside - stream.monthly_base
        noise  == Deviate(e) * stream.volatility
    IN  base + upside * Max(0, HalfFactor + noise)
\* (variant for C8: the factor applied to monthly_upside, not to upside - base)
RevenueFullUpside(stream, e) ==
    LET base   == stream.monthly_base * Milli
        upside == stream.monthly_upside
        noise  == Deviate(e) * stream.volatility
    IN  Max(0, base + upside * Max(0, HalfFactor + noise))
\* The revenue (milli-dollars) of an active stream whose noise draw is e.
Revenue(stream, e) ==
    LET base   == stream.monthly_base * Milli
        upside == stream.monthly_upside - stream.monthly_base
        noise  == Deviate(e) * stream.volatility
    IN  Max(0, base + upside * Max(0, HalfFactor + noise))

\* random.gauss(5500, 500) for entry e, in milli-dollars.
Expenses(e) == ExpenseMean * Milli + Deviate(e) * ExpenseStdev * 100

\* (variant for C2: range(1, SIMULATION_MONTHS + 2))
OneMonthMore(m, h) == m < h + 1
\* for month in range(1, SIMULATION_MONTHS + 1): is there a month after m?
MoreMonths(m, h) == m < h

\* (variant for C28: a reserve of exactly -20000 still operating)
SurvivesInclusive(cash) == cash >= InsolvencyFloor * Milli
\* The survival check: can still operate?
Survives(cash) == cash > InsolvencyFloor * Milli

\* (variant for C25: a reserve on the floor counted as a breach)
BreachedInclusive(cash, floor) == cash <= floor * Milli
\* cash_reserve < STOP_RULES["liquidity_floor"]
Breached(cash, floor) == cash < floor * Milli

\* (variant for C26: a share on the cap counted as a violation)
ConcentratedInclusive(by_stream, revenue, cap) ==
    revenue > 0 /\ SeqMax(by_stream) * 100 >= cap * revenue
\* month_revenue > 0 and max(month_by_stream.values()) / month_revenue > cap
Concentrated(by_stream, revenue, cap) ==
    revenue > 0 /\ SeqMax(by_stream) * 100 > cap * revenue

\* (variant for C3: continue in place of break)
KeepGoing == "month"
\* Where run_monte_carlo goes when the survival check fails (break).
OnInsolvent == "emit"

\* (variant for C9: the expense draw ahead of the streams)
ExpensesFirst(n) == "expenses"
\* Where a month starts: the streams, in configuration order, then the expenses.
MonthStart(n) == IF n > 0 THEN "activation" ELSE "expenses"

\* The site of a draw: which scenario, month and stream asked for it.
NoDraw == [scenario |-> -1, month |-> 0, stream |-> 0, kind |-> "none"]
Site(kind) ==
    [scenario |-> scenario_id, month |-> month,
     stream |-> IF kind = "expenses" THEN 0 ELSE sidx, kind |-> kind]

\* The ScenarioResult of the trajectory that has just ended.
ScenarioResult ==
    [scenario_id |-> scenario_id,
     months_survived |-> months_survived,
     final_cash |-> Round2(cash_reserve),
     total_revenue |-> Round2(SeqSum(monthly_totals)),
     avg_monthly |-> RoundDiv(SeqSum(monthly_totals), Len(monthly_totals), 10),
     liquidity_breaches |-> liquidity_breaches,
     concentration_violations |-> concentration_violations,
     stream_totals |-> [i \in 1..NumStreams |-> Round2(SeqSum(stream_revenues[i]))]]

(***************************************************************************)
(* _format_monte_carlo_report: the figures of the report.                  *)
(***************************************************************************)
\* (variant for C6: the values indexed without sorting)
Unsorted(s) == s
\* sorted(final_cash_values)
Sorted(s) == SortSeq(s, LAMBDA a, b : a < b)

\* int(len(final_cash_values) * f), f in hundredths; Python indexes from 0.
PctIndex(n, f) == (n * f) \div 100
Percentile(values, f) == Sorted(values)[PctIndex(Len(values), f) + 1]

\* The four final-cash bands (milli-dollars).
IsCatastrophic(r) == r.final_cash < CatastrophicBelow * Milli
\* (variant for C5: the struggling band without its lower end)
StrugglingOpen(r) == CatastrophicBelow * Milli < r.final_cash /\ r.final_cash < StrugglingBelow * Milli
IsStruggling(r)   == CatastrophicBelow * Milli <= r.final_cash /\ r.final_cash < StrugglingBelow * Milli
IsSurviving(r)    == StrugglingBelow * Milli <= r.final_cash /\ r.final_cash < SurvivingBelow * Milli
IsThriving(r)     == r.final_cash >= SurvivingBelow * Milli

\* r["months_survived"] >= 12
Survived12(r) == r.months_survived >= ReportMonths

\* round(1000 * part / total), ties to even, for total > 0; the quotient is
\* taken digit by digit, which keeps the intermediate products small.
PerMille(part, total) ==
    LET q0 == part \div total
        r0 == part - q0 * total
        q1 == (10 * r0) \div total
        r1 == 10 * r0 - q1 * total
        q2 == (10 * r1) \div total
        r2 == 10 * r1 - q2 * total
        q3 == (10 * r2) \div total
        r3 == 10 * r2 - q3 * total
        n  == 1000 * q0 + 100 * q1 + 10 * q2 + q3
    IN  IF 2 * r3 < total THEN n
        ELSE IF 2 * r3 > total THEN n + 1
        ELSE IF n % 2 = 0 THEN n ELSE n + 1

\* (variant for C19: a stream credited in full when nothing was earned)
ContributionWhole(part, total) ==
    IF total > 0 THEN PerMille(part, total) ELSE 1000
\* pct = (avg / total_all_streams * 100) if total_all_streams > 0 else 0, as
\* printed with one decimal: tenths of a percent.  part and total are sums
\* over the same scenarios, so their ratio is the ratio of the means.
ContributionPct(part, total) ==
    IF total > 0 THEN PerMille(part, total) ELSE 0

\* The sum over the scenarios of the total of stream i.
StreamSum(rs, i) == SeqSum([k \in 1..Len(rs) |-> rs[k].stream_totals[i]])
AllStreamsSum(rs) == SeqSum([i \in 1..NumStreams |-> StreamSum(rs, i)])

FormatReport(rs) ==
    LET cash == [i \in 1..Len(rs) |-> rs[i].final_cash]
        s12  == Cardinality({i \in 1..Len(rs) : Survived12(rs[i])})
    IN  [survived_12   |-> s12,
         contribution  |-> [i \in 1..NumStreams |->
                               ContributionPct(StreamSum(rs, i), AllStreamsSum(rs))],
         \* survival_rate, as printed with one decimal: tenths of a percent
         survival_rate |-> RoundDiv(s12 * 1000, Len(rs), 1),
         p5  |-> Percentile(cash, 5),
         p25 |-> Percentile(cash, 25),
         p50 |-> Percentile(cash, 50),
         p75 |-> Percentile(cash, 75),
         p95 |-> Percentile(cash, 95),
         \* the averages, as printed with one decimal: tenths
         avg_liq_breaches    |-> RoundDiv(10 * SeqSum([i \in 1..Len(rs) |-> rs[i].liquidity_breaches]), Len(rs), 1),
         avg_conc_violations |-> RoundDiv(10 * SeqSum([i \in 1..Len(rs) |-> rs[i].concentration_violations]), Len(rs), 1),
         catastrophic |-> Cardinality({i \in 1..Len(rs) : IsCatastrophic(rs[i])}),
         struggling   |-> Cardinality({i \in 1..Len(rs) : IsStruggling(rs[i])}),
         surviving    |-> Cardinality({i \in 1..Len(rs) : IsSurviving(rs[i])}),
         thriving     |-> Cardinality({i \in 1..Len(rs) : IsThriving(rs[i])})]

(***************************************************************************)
(* VENDOR_DEPENDENCIES and the graph run_dependency_graph builds from it.  *)
(* A node's alternatives are held as their number (the scores use only     *)
(* len(alternatives)).  A centrality is an exact fraction [num, den]; a    *)
(* SPOF score is held in tenths.                                           *)
(***************************************************************************)
Vendor(id, criticality, alternatives) ==
    [id |-> id, criticality |-> criticality, alternatives |-> alternatives]

VENDOR_DEPENDENCIES ==
    [nodes |-> << Vendor("anthropic_claude", "critical", 2),
                  Vendor("amazon_kdp", "critical", 2),
                  Vendor("suno_ai", "high", 2),
                  Vendor("substack", "medium", 2),
                  Vendor("github", "high", 2),
                  Vendor("govt_client", "critical", 0),
                  Vendor("stripe", "high", 2),
                  Vendor("washington_dc_llc", "critical", 0),
                  Vendor("personal_bank", "critical", 0),
                  Vendor("google_workspace", "medium", 2),
                  Vendor("formation_series", "high", 0),
                  Vendor("mw_omega_system", "high", 0) >>,
     edges |-> << <<"anthropic_claude", "mw_omega_system", 10>>,
                  <<"anthropic_claude", "formation_series", 7>>,
                  <<"amazon_kdp", "formation_series", 9>>,
                  <<"suno_ai", "formation_series", 6>>,
                  <<"substack", "formation_series", 4>>,
                  <<"github", "mw_omega_system", 8>>,
                  <<"govt_client", "personal_bank", 10>>,
                  <<"stripe", "personal_bank", 7>>,
                  <<"amazon_kdp", "personal_bank", 3>>,
                  <<"washington_dc_llc", "govt_client", 10>>,
                  <<"washington_dc_llc", "personal_bank", 8>>,
                  <<"google_workspace", "mw_omega_system", 3>>,
                  <<"mw_omega_system", "formation_series", 5>> >>]

InSeq(x, s) == \E i \in 1..Len(s) : s[i] = x
Range(s) == {s[i] : i \in 1..Len(s)}

Declared(d, id) == \E i \in 1..Len(d.nodes) : d.nodes[i].id = id
\* VENDOR_DEPENDENCIES["nodes"][node]
NodeData(d, id) == d.nodes[CHOOSE i \in 1..Len(d.nodes) : d.nodes[i].id = id]

\* nx.DiGraph(): nodes in insertion order, edges <<src, dst, weight>> in
\* insertion order.
NoGraph == [nodes |-> << >>, edges |-> << >>]

\* G.add_node(n): a node already present stays where it is.
AddNode(g, n) == IF InSeq(n, g.nodes) THEN g ELSE [g EXCEPT !.nodes = Append(@, n)]

\* G.add_edge(src, dst, weight=w): networkx adds an endpoint that is not yet
\* a node; an edge already present keeps its place and takes the new weight.
AddEdge(g, e) ==
    LET h    == AddNode(AddNode(g, e[1]), e[2])
        same == {i \in 1..Len(h.edges) : h.edges[i][1] = e[1] /\ h.edges[i][2] = e[2]}
    IN  IF same = {} THEN [h EXCEPT !.edges = Append(@, e)]
        ELSE [h EXCEPT !.edges = [i \in 1..Len(h.edges) |-> IF i \in same THEN e ELSE h.edges[i]]]

\* G[n]: the successors of n, in the order their edges were added.
Successors(g, n) ==
    LET out == SelectSeq(g.edges, LAMBDA e : e[1] = n)
    IN  [i \in 1..Len(out) |-> out[i][2]]

\* G[a][b]["weight"]
Weight(g, a, b) ==
    g.edges[CHOOSE i \in 1..Len(g.edges) : g.edges[i][1] = a /\ g.edges[i][2] = b][3]

\* The sum of the values of a function into the naturals.
Total(f) == BagCardinality([x \in {y \in DOMAIN f : f[y] > 0} |-> f[x]])

\* (variant for C15: a path weighed by its first edge)
FirstEdgeWeight(g, p) == Weight(g, p[1], p[2])
\* sum(G[path[i]][path[i+1]]["weight"] for i in range(len(path) - 1))
PathWeight(g, p) == Total([i \in 1..(Len(p) - 1) |-> Weight(g, p[i], p[i + 1])])

\* The simple directed paths of g from s to t, as a set (what the library's
\* shortest-path routines range over; edge weights are positive).
RECURSIVE Extend(_, _, _)
Extend(g, p, t) ==
    IF p[Len(p)] = t THEN {p}
    ELSE UNION { Extend(g, Append(p, c), t) :
                 c \in {x \in Range(Successors(g, p[Len(p)])) : ~InSeq(x, p)} }
SimplePaths(g, s, t) == Extend(g, <<s>>, t)

Reaches(g, s, t) == s # t /\ SimplePaths(g, s, t) # {}

\* The weighted distance from s to t and the shortest paths between them.
Distance(g, s, t) ==
    LET W == {PathWeight(g, p) : p \in SimplePaths(g, s, t)}
    IN  CHOOSE w \in W : \A x \in W : w <= x
ShortestPaths(g, s, t) ==
    {p \in SimplePaths(g, s, t) : PathWeight(g, p) = Distance(g, s, t)}

RECURSIVE GCD(_, _)
GCD(a, b) == IF b = 0 THEN a ELSE GCD(b, a % b)
LCM(a, b) == (a \div GCD(a, b)) * b
Ratio(n, d) == IF n = 0 THEN [num |-> 0, den |-> 1]
               ELSE [num |-> n \div GCD(n, d), den |-> d \div GCD(n, d)]

\* A unit every count of tied shortest paths of the model divides.
ShareUnit == 2 * 2 * 3 * 5

\* nx.betweenness_centrality(G, weight="weight")[v]: over the ordered pairs
\* (s, t) around v, the share of the shortest s-t paths that pass through v,
\* scaled by 1 / ((n - 1)(n - 2)) when n > 2.
BetweennessOf(g, v) ==
    LET n == Len(g.nodes)
        share(s, t) ==
            IF s = v \/ t = v \/ ~Reaches(g, s, t) THEN 0
            ELSE (Cardinality({p \in ShortestPaths(g, s, t) : InSeq(v, p)}) * ShareUnit)
                    \div Cardinality(ShortestPaths(g, s, t))
    IN  Ratio(Total([k \in (1..n) \X (1..n) |-> share(g.nodes[k[1]], g.nodes[k[2]])]),
              ShareUnit * (IF n > 2 THEN (n - 1) * (n - 2) ELSE 1))

\* nx.closeness_centrality(G, distance="weight")[v]: with r nodes reaching v
\* at total distance d, (r / d) * (r / (n - 1)); 0 when nothing reaches v.
ClosenessOf(g, v) ==
    LET n     == Len(g.nodes)
        reach == SelectSeq(g.nodes, LAMBDA u : Reaches(g, u, v))
        totsp == Total([i \in 1..Len(reach) |-> Distance(g, reach[i], v)])
    IN  IF totsp > 0 /\ n > 1 THEN Ratio(Len(reach) * Len(reach), totsp * (n - 1))
        ELSE Ratio(0, 1)

\* G.out_degree(weight="weight")[v] and G.in_degree(weight="weight")[v]
OutDegreeOf(g, v) ==
    Total([i \in 1..Len(g.edges) |-> IF g.edges[i][1] = v THEN g.edges[i][3] ELSE 0])
InDegreeOf(g, v) ==
    Total([i \in 1..Len(g.edges) |-> IF g.edges[i][2] = v THEN g.edges[i][3] ELSE 0])

\* (variant for C18: max() without its default)
MaxNeedsValue(od) == DOMAIN od # {}
\* max(out_degree.values(), default=1) has a value for every mapping.
MaxHasValue(od) == TRUE

\* max(out_degree.values(), default=1) or 1
MaxOut(od) ==
    LET values == {od[v] : v \in DOMAIN od}
        m      == IF values = {} THEN 1 ELSE CHOOSE x \in values : \A y \in values : x >= y
    IN  IF m = 0 THEN 1 ELSE m

\* criticality_weight.get(node_data["criticality"], 0.5), in hundredths
CriticalityWeight(c) ==
    CASE c = "critical" -> 100
      [] c = "high"     -> 70
      [] c = "medium"   -> 40
      [] c = "low"      -> 20
      [] OTHER          -> 50

\* (variant for C17: the score taken without the penalty)
NoPenalty(k) == [num |-> 1, den |-> 1]
\* alternatives_penalty: 1.0 without alternatives, else 1 / (1 + k * 0.3)
AlternativesPenalty(k) ==
    IF k = 0 THEN [num |-> 1, den |-> 1] ELSE [num |-> 10, den |-> 10 + 3 * k]

\* (variant for C19: the floor of the divisor applied to the dividend too)
OutDegreeFloored(od, max_out) == [num |-> Max(od, 1), den |-> max_out]
\* out_degree.get(node, 0) / max_out
OutDegreeShare(od, max_out) == [num |-> od, den |-> max_out]

\* The four weights of the score, in hundredths.
BetweennessPart == 35
ClosenessPart   == 30
OutDegreePart   == 20
CriticalityPart == 15

\* round(spof * 100, 1), in tenths, for betweenness b, closeness c, out-degree
\* share o (fractions), criticality weight cw (hundredths) and penalty pen.
SpofScore(b, c, o, cw, pen) ==
    LET L    == LCM(LCM(b.den, c.den), o.den)
        \* 100 * 100 * L times the weighted sum
        base == 100 * ( BetweennessPart * b.num * (L \div b.den)
                      + ClosenessPart * c.num * (L \div c.den)
                      + OutDegreePart * o.num * (L \div o.den) )
                + CriticalityPart * cw * L
    IN  RoundDiv(base * pen.num, 10 * L * pen.den, 1)

\* The score of the declared node v.
ScoreOf(d, bt, cl, od, v) ==
    SpofScore(bt[v], cl[v], OutDegreeShare(od[v], MaxOut(od)),
              CriticalityWeight(NodeData(d, v).criticality),
              AlternativesPenalty(NodeData(d, v).alternatives))

SpofThreshold == 10
\* (variant for C16: the threshold itself counted as above it)
IsTrueSpofInclusive(alternatives, score) == alternatives = 0 /\ score >= SpofThreshold * 10
\* len(data["alternatives"]) == 0 and spof_scores[node] > 10
IsTrueSpof(alternatives, score) == alternatives = 0 /\ score > SpofThreshold * 10

\* true_spofs: the qualifying declared nodes, in declaration order.
TrueSpofs(d, scores) ==
    LET ids == [i \in 1..Len(d.nodes) |-> d.nodes[i].id]
    IN  SelectSeq(ids, LAMBDA v : IsTrueSpof(NodeData(d, v).alternatives, scores[v]))

MinPathNodes == 3
\* (variant for C12: the direct connections retained as well)
RetainedFromTwo(p) == Len(p) >= MinPathNodes - 1
\* len(path) >= 3
Retained(p) == Len(p) >= MinPathNodes

\* The (path, path_weight) tuples the current pair adds to critical_paths.
RetainedPaths(g, ps) ==
    LET kept == SelectSeq(ps, Retained)
    IN  [i \in 1..Len(kept) |-> <<kept[i], PathWeight(g, kept[i])>>]

\* (variant for C14: the list left in enumeration order)
Unranked(s) == s
\* list.sort(key=lambda x: x[1], reverse=True) is stable: an entry comes after
\* the entries of greater key and after the earlier entries of equal key.
Ranked(s) ==
    LET place(i) == 1 + Cardinality({j \in 1..Len(s) : s[j][2] > s[i][2]})
                      + Cardinality({j \in 1..(i - 1) : s[j][2] = s[i][2]})
    IN  [k \in 1..Len(s) |-> s[CHOOSE i \in 1..Len(s) : place(i) = k]]

TopK == 10
\* critical_paths[:10]
TopPaths(cp) == SubSeq(cp, 1, Min(TopK, Len(cp)))

\* (variant for C13: a node counted as visited only when it is the source)
VisitedSource(path, n) == n = path[1]
\* child in visited
Visited(path, n) == InSeq(n, path)

\* The thresholds of the report's labels.
RiskCritical == 18
RiskHigh     == 12
StatusSpof   == 15

\* _format_depgraph_report: the figures of the report.
FormatDepgraph(d, g, scores, spofs, cp) ==
    LET n    == Len(g.nodes)
        rows == Ranked([i \in 1..n |-> <<g.nodes[i], scores[g.nodes[i]]>>])
        top  == TopPaths(cp)
    IN  [vendors      |-> n,
         dependencies |-> Len(g.edges),
         \* nx.density(G), as printed with three decimals: thousandths
         density      |-> IF n > 1 THEN RoundDiv(1000 * Len(g.edges), n * (n - 1), 1) ELSE 0,
         true_spofs   |-> Len(spofs),
         scores       |-> [i \in 1..n |->
                             [node |-> rows[i][1], score |-> rows[i][2],
                              status |-> IF /\ rows[i][2] > StatusSpof * 10
                                            /\ NodeData(d, rows[i][1]).alternatives = 0
                                         THEN "SPOF"
                                         ELSE IF rows[i][2] > SpofThreshold * 10 THEN "HIGH"
                                         ELSE "OK"]],
         paths        |-> [i \in 1..Len(top) |->
                             [path |-> top[i][1], weight |-> top[i][2],
                              risk |-> IF top[i][2] >= RiskCritical THEN "CRITICAL"
                                       ELSE IF top[i][2] >= RiskHigh THEN "HIGH"
                                       ELSE "MODERATE"]]]

\* The locals of run_dependency_graph before it is invoked.
NoWalk == [path |-> << >>, next |-> << >>]
GraphLocals ==
    /\ G = NoGraph
    /\ betweenness = << >> /\ closeness = << >>
    /\ in_degree = << >> /\ out_degree = << >>
    /\ spof_scores = << >> /\ true_spofs = << >> /\ critical_paths = << >>
    /\ edge_i = 0 /\ node_i = 0 /\ src_i = 0 /\ dst_i = 0
    /\ walk = NoWalk /\ paths = << >>
    /\ error = "none"

\* The state of main before it dispatches: no exit, no handler.
CliLocals == exit_status = -1 /\ handler = "none"

\* The locals of decision_compress and build_dependency_graph before they are
\* invoked, and a reader who has not opened a document.
UtilLocals ==
    /\ tasks = << >> /\ scored = << >>
    /\ docs = << >> /\ doc_i = 0
    /\ doc_from = "" /\ doc_at = ""

(***************************************************************************)
(* run_monte_carlo: the steps.                                             *)
(***************************************************************************)
\* Entry: random.seed(42); results = [].
Invoke ==
    /\ pc = "idle" /\ calls > 0 /\ entry = "run_monte_carlo"
    /\ gen' = Seed(gen)
    /\ drawn' = NoDraw
    /\ calls' = calls - 1
    /\ results' = << >>
    /\ scenario_id' = 0
    /\ pc' = "scenario"
    /\ UNCHANGED <<cfg, entry, returned, month, sidx, cash_reserve, months_survived,
                   liquidity_breaches, concentration_violations, month_revenue,
                   month_by_stream, monthly_totals, expense_log, reserve_log, stream_revenues, demoVars, repVars, graphVars, cliVars, utilVars>>

\* (variant for C29: the two counters set up once, ahead of the scenario loop)
LoopScenarioCarrying ==
    /\ pc = "scenario" /\ scenario_id < cfg.scenarios
    /\ monthly_totals' = << >>
    /\ expense_log' = << >>
    /\ reserve_log' = << >>
    /\ stream_revenues' = [i \in 1..NumStreams |-> << >>]
    /\ cash_reserve' = 0
    /\ months_survived' = 0
    /\ UNCHANGED <<liquidity_breaches, concentration_violations>>
    /\ month' = 0
    /\ pc' = "month"
    /\ UNCHANGED <<cfgVars, returned, gen, drawn, scenario_id, sidx, month_revenue,
                   month_by_stream, results, demoVars, repVars, graphVars, cliVars, utilVars>>

\* for scenario_id in range(SIMULATION_SCENARIOS): the fresh state of a scenario.
LoopScenario ==
    /\ pc = "scenario" /\ scenario_id < cfg.scenarios
    /\ monthly_totals' = << >>
    /\ expense_log' = << >>
    /\ reserve_log' = << >>
    /\ stream_revenues' = [i \in 1..NumStreams |-> << >>]
    /\ cash_reserve' = 0
    /\ months_survived' = 0
    /\ liquidity_breaches' = 0
    /\ concentration_violations' = 0
    /\ month' = 0
    /\ pc' = "month"
    /\ UNCHANGED <<cfgVars, returned, gen, drawn, scenario_id, sidx, month_revenue,
                   month_by_stream, results, demoVars, repVars, graphVars, cliVars, utilVars>>

\* for month in range(1, SIMULATION_MONTHS + 1): the next month starts.
LoopMonth ==
    /\ pc = "month" /\ MoreMonths(month, cfg.months)
    /\ month' = month + 1
    /\ month_revenue' = 0
    /\ month_by_stream' = << >>
    /\ sidx' = 1
    /\ pc' = MonthStart(NumStreams)
    /\ UNCHANGED <<cfgVars, returned, gen, drawn, scenario_id, cash_reserve, months_survived,
                   liquidity_breaches, concentration_violations, monthly_totals, expense_log, reserve_log,
                   stream_revenues, results, demoVars, repVars, graphVars, cliVars, utilVars>>

\* The month loop is exhausted.
HorizonReached ==
    /\ pc = "month" /\ ~MoreMonths(month, cfg.months)
    /\ pc' = "emit"
    /\ UNCHANGED <<cfgVars, returned, gen, drawn, mcVars, demoVars, repVars, graphVars, cliVars, utilVars>>

\* month_by_stream[name] = round(revenue, 2); month_revenue += revenue;
\* stream_revenues[name].append(round(revenue, 2)); then the next stream.
RecordRevenue(revenue) ==
    /\ month_by_stream' = Append(month_by_stream, Round2(revenue))
    /\ month_revenue' = month_revenue + revenue
    /\ stream_revenues' = [stream_revenues EXCEPT ![sidx] = Append(@, Round2(revenue))]
    /\ sidx' = IF sidx < NumStreams THEN sidx + 1 ELSE sidx
    /\ pc' = IF sidx < NumStreams THEN "activation" ELSE "expenses"

\* The activation draw of stream sidx; an inactive stream has revenue 0.
DrawActivation ==
    /\ pc = "activation"
    /\ \E e \in NextEntries :
        /\ gen' = Advance(gen, e, calls > 0)
        /\ drawn' = Site("activation")
        /\ IF IsActive(cfg.streams[sidx], month, e)
           THEN /\ pc' = "noise"
                /\ UNCHANGED <<month_by_stream, month_revenue, stream_revenues, sidx>>
           ELSE RecordRevenue(0)
    /\ UNCHANGED <<cfgVars, returned, scenario_id, month, cash_reserve, months_survived,
                   liquidity_breaches, concentration_violations, monthly_totals, expense_log, reserve_log,
                   results, demoVars, repVars, graphVars, cliVars, utilVars>>

\* The noise draw of the active stream sidx and its revenue.
DrawNoise ==
    /\ pc = "noise"
    /\ \E e \in NextEntries :
        /\ gen' = Advance(gen, e, calls > 0)
        /\ drawn' = Site("noise")
        /\ RecordRevenue(Revenue(cfg.streams[sidx], e))
    /\ UNCHANGED <<cfgVars, returned, scenario_id, month, cash_reserve, months_survived,
                   liquidity_breaches, concentration_violations, monthly_totals, expense_log, reserve_log,
                   results, demoVars, repVars, graphVars, cliVars, utilVars>>

\* The expense draw, the cash update and the two stop-rule checks.
CloseMonth ==
    /\ pc = "expenses"
    /\ \E e \in NextEntries :
        LET cash == cash_reserve + month_revenue - Expenses(e)
        IN  /\ gen' = Advance(gen, e, calls > 0)
            /\ drawn' = Site("expenses")
            /\ cash_reserve' = cash
            /\ expense_log' = Append(expense_log, Expenses(e))
            /\ reserve_log' = Append(reserve_log, cash)
            /\ liquidity_breaches' =
                  IF Breached(cash, cfg.liquidity_floor)
                  THEN liquidity_breaches + 1 ELSE liquidity_breaches
    /\ monthly_totals' = Append(monthly_totals, Round2(month_revenue))
    /\ concentration_violations' =
          IF Concentrated(month_by_stream, month_revenue, cfg.concentration_cap)
          THEN concentration_violations + 1 ELSE concentration_violations
    /\ pc' = "survival"
    /\ UNCHANGED <<cfgVars, returned, scenario_id, month, sidx, months_survived,
                   month_revenue, month_by_stream, stream_revenues, results,
                   demoVars, repVars, graphVars, cliVars, utilVars>>

\* if cash_reserve > -20000: months_survived = month  else: break
SurvivalCheck ==
    /\ pc = "survival"
    /\ IF Survives(cash_reserve)
       THEN months_survived' = month /\ pc' = "month"
       ELSE months_survived' = months_survived /\ pc' = OnInsolvent
    /\ UNCHANGED <<cfgVars, returned, gen, drawn, scenario_id, month, sidx, cash_reserve,
                   liquidity_breaches, concentration_violations, month_revenue,
                   month_by_stream, monthly_totals, expense_log, reserve_log, stream_revenues, results,
                   demoVars, repVars, graphVars, cliVars, utilVars>>

\* results.append({...}); the next scenario.
Emit ==
    /\ pc = "emit"
    /\ results' = Append(results, ScenarioResult)
    /\ scenario_id' = scenario_id + 1
    /\ pc' = "scenario"
    /\ UNCHANGED <<cfgVars, returned, gen, drawn, month, sidx, cash_reserve, months_survived,
                   liquidity_breaches, concentration_violations, month_revenue,
                   month_by_stream, monthly_totals, expense_log, reserve_log, stream_revenues, demoVars, repVars, graphVars, cliVars, utilVars>>

\* return _format_monte_carlo_report(results)
Return ==
    /\ pc = "scenario" /\ scenario_id >= cfg.scenarios
    /\ returned' = Append(returned, [results |-> results, report |-> FormatReport(results)])
    /\ pc' = "idle"
    /\ UNCHANGED <<cfgVars, gen, drawn, mcVars, demoVars, repVars, graphVars, cliVars, utilVars>>

Simulate ==
    \/ Invoke \/ LoopScenario \/ LoopMonth \/ HorizonReached \/ DrawActivation
    \/ DrawNoise \/ CloseMonth \/ SurvivalCheck \/ Emit \/ Return

(***************************************************************************)
(* Specification Spec: one invocation of run_monte_carlo, for every        *)
(* admitted configuration and every sequence of draws.                     *)
(***************************************************************************)
InitLocals ==
    /\ returned = << >>
    /\ gen = [pos |-> 0, tape |-> << >>]
    /\ drawn = NoDraw
    /\ pc = "idle"
    /\ scenario_id = 0 /\ month = 0 /\ sidx = 1
    /\ cash_reserve = 0 /\ months_survived = 0
    /\ liquidity_breaches = 0 /\ concentration_violations = 0
    /\ month_revenue = 0 /\ month_by_stream = << >>
    /\ monthly_totals = << >> /\ stream_revenues = << >> /\ expense_log = << >>
    /\ reserve_log = << >>
    /\ results = << >>
    /\ trial = 0 /\ doc_scores = << >> /\ demo_results = << >>
    /\ report_in = << >> /\ report_out = << >>
    /\ GraphLocals
    /\ CliLocals /\ UtilLocals

Init ==
    /\ cfg \in Runs(MaxDraws)
    /\ entry = "run_monte_carlo"
    /\ calls = 1
    /\ deps = VENDOR_DEPENDENCIES /\ nx = TRUE
    /\ argv = << >>
    /\ InitLocals

Next == Simulate

Spec == Init /\ [][Next]_vars

(***************************************************************************)
(* monte_carlo_simulation (demo/run_demo.py).  Scores are held in tenths.  *)
(***************************************************************************)
\* random.gauss(95, 3) for entry e, in tenths.
DocScore(e) == DemoMean * 10 + Deviate(e) * DemoStdev

\* The record monte_carlo_simulation returns for its list of trial results.
DemoSummary(rs, n_trials) ==
    LET passes == Cardinality({i \in 1..Len(rs) : rs[i].all_pass})
        minsum == SeqSum([i \in 1..Len(rs) |-> rs[i].min_score])
    IN  [trials |-> n_trials,
         \* f"{pass_rate:.1%}": tenths of a percent
         deployment_pass_rate  |-> RoundDiv(passes * 1000, n_trials, 1),
         \* f"{avg_min:.1f}": tenths
         average_minimum_score |-> RoundDiv(minsum, n_trials, 1),
         verdict |-> IF passes * 1000 > DemoDeployRate * n_trials THEN "DEPLOY" ELSE "HOLD"]

\* Entry: random.seed(42); results = [].
DemoInvoke ==
    /\ pc = "idle" /\ calls > 0 /\ entry = "monte_carlo_simulation"
    /\ gen' = Seed(gen)
    /\ calls' = calls - 1
    /\ demo_results' = << >>
    /\ trial' = 0
    /\ pc' = "trial"
    /\ UNCHANGED <<cfg, entry, returned, drawn, mcVars, doc_scores, repVars, graphVars, cliVars, utilVars>>

\* for _ in range(n_trials): the next trial starts.
DemoLoopTrial ==
    /\ pc = "trial" /\ trial < cfg.n_trials
    /\ doc_scores' = << >>
    /\ pc' = "score"
    /\ UNCHANGED <<cfgVars, returned, gen, drawn, mcVars, trial, demo_results, repVars, graphVars, cliVars, utilVars>>

\* doc_scores = [random.gauss(95, 3) for _ in range(39)]: one more score.
DemoScore ==
    /\ pc = "score" /\ Len(doc_scores) < DemoDocs
    /\ \E e \in NextEntries :
        /\ gen' = Advance(gen, e, calls > 0)
        /\ doc_scores' = Append(doc_scores, DocScore(e))
    /\ UNCHANGED <<cfgVars, returned, drawn, pc, mcVars, trial, demo_results, repVars, graphVars, cliVars, utilVars>>

\* min_score, all_pass and results.append(...) of a trial.
DemoEndTrial ==
    /\ pc = "score" /\ Len(doc_scores) >= DemoDocs
    /\ demo_results' = Append(demo_results,
          [min_score |-> SeqMin(doc_scores),
           all_pass  |-> \A i \in 1..Len(doc_scores) : doc_scores[i] >= DemoPassScore * 10])
    /\ trial' = trial + 1
    /\ pc' = "trial"
    /\ UNCHANGED <<cfgVars, returned, gen, drawn, mcVars, doc_scores, repVars, graphVars, cliVars, utilVars>>

\* pass_rate, avg_min and the returned record.
DemoReturn ==
    /\ pc = "trial" /\ trial >= cfg.n_trials
    /\ returned' = Append(returned, DemoSummary(demo_results, cfg.n_trials))
    /\ pc' = "idle"
    /\ UNCHANGED <<cfgVars, gen, drawn, mcVars, demoVars, repVars, graphVars, cliVars, utilVars>>

Demo == DemoInvoke \/ DemoLoopTrial \/ DemoScore \/ DemoEndTrial \/ DemoReturn

(***************************************************************************)
(* Specification SpecDet: two invocations of an entry point, with draws    *)
(* made on the shared module-level generator by other code in between.     *)
(***************************************************************************)
\* Code outside the entry point calls the module-level generator.
OtherDraw ==
    /\ pc = "idle" /\ returned # << >> /\ calls > 0
    /\ gen.pos < MaxDetDraws + MaxOther
    /\ \E e \in NextEntries : gen' = Advance(gen, e, calls > 0)
    /\ UNCHANGED <<cfgVars, returned, drawn, pc, mcVars, demoVars, repVars, graphVars, cliVars, utilVars>>

DetConfigurations ==
    { c \in Configurations : c.streams \in {<<DormantStream>>, <<SteadyStream, DormantStream>>} }

InitDet ==
    /\ \/ /\ entry = "run_monte_carlo"
          /\ cfg \in { r \in Runs(MaxDetDraws) :
                          \E c \in DetConfigurations : c.streams = r.streams }
       \/ /\ entry = "monte_carlo_simulation"
          /\ cfg \in { [n_trials |-> n] : n \in { k \in 1..MaxTrials : k * DemoDocs <= MaxDetDraws } }
    /\ calls = 2
    /\ deps = VENDOR_DEPENDENCIES /\ nx = TRUE
    /\ argv = << >>
    /\ InitLocals

NextDet == Simulate \/ Demo \/ OtherDraw

SpecDet == InitDet /\ [][NextDet]_vars

(***************************************************************************)
(* Specification SpecReport: _format_monte_carlo_report applied to a list  *)
(* of ScenarioResults whose final cash lies on and around the thresholds.  *)
(***************************************************************************)
\* Final-cash values (cents): below the insolvency floor, and on and next to
\* each cluster threshold.
ReportCashCents ==
    {-2500000, -1000001, -1000000, -1, 0, 4999999, 5000000}

\* A ScenarioResult with the given final cash; only an insolvent trajectory
\* ends before the horizon.
GivenResult(id, cents) ==
    [scenario_id |-> id,
     months_survived |-> IF cents * 10 > InsolvencyFloor * Milli THEN ReportMonths ELSE ReportMonths - 1,
     final_cash |-> cents * 10,
     total_revenue |-> 0,
     avg_monthly |-> 0,
     liquidity_breaches |-> 0,
     concentration_violations |-> 0,
     stream_totals |-> <<0>>]

ReportInputs ==
    UNION { { [i \in 1..n |-> GivenResult(i - 1, f[i])] : f \in [1..n -> ReportCashCents] } :
            n \in 1..MaxReportN }

\* _format_monte_carlo_report(results)
ApplyReport ==
    /\ pc = "report"
    /\ report_out' = <<FormatReport(report_in)>>
    /\ pc' = "idle"
    /\ UNCHANGED <<cfgVars, returned, gen, drawn, mcVars, demoVars, report_in, graphVars, cliVars, utilVars>>

InitReport ==
    /\ cfg = [streams |-> <<ExampleStream>>, liquidity_floor |-> LiquidityFloor,
              concentration_cap |-> ConcentrationCap, months |-> ReportMonths, scenarios |-> 1]
    /\ entry = "_format_monte_carlo_report"
    /\ calls = 0
    /\ returned = << >>
    /\ gen = [pos |-> 0, tape |-> << >>]
    /\ drawn = NoDraw
    /\ pc = "report"
    /\ scenario_id = 0 /\ month = 0 /\ sidx = 1
    /\ cash_reserve = 0 /\ months_survived = 0
    /\ liquidity_breaches = 0 /\ concentration_violations = 0
    /\ month_revenue = 0 /\ month_by_stream = << >>
    /\ monthly_totals = << >> /\ stream_revenues = << >> /\ expense_log = << >>
    /\ reserve_log = << >>
    /\ results = << >>
    /\ trial = 0 /\ doc_scores = << >> /\ demo_results = << >>
    /\ report_in \in ReportInputs
    /\ report_out = << >>
    /\ deps = VENDOR_DEPENDENCIES /\ nx = TRUE
    /\ argv = << >>
    /\ GraphLocals
    /\ CliLocals /\ UtilLocals

NextReport == ApplyReport

SpecReport == InitReport /\ [][NextReport]_vars

(***************************************************************************)
(* run_dependency_graph: the steps.                                        *)
(***************************************************************************)
mcLocals == <<cfgVars, gen, drawn, mcVars, demoVars, repVars, cliVars, utilVars, deps, nx>>

\* Entry with networkx missing: the message and sys.exit(1).
NetworkxMissing ==
    /\ pc = "idle" /\ calls > 0 /\ entry = "run_dependency_graph" /\ ~nx
    /\ calls' = calls - 1
    /\ error' = "SystemExit"
    /\ exit_status' = 1
    /\ pc' = "exit"
    /\ UNCHANGED <<cfg, entry, returned, gen, drawn, mcVars, demoVars, repVars, argv, handler, utilVars,
                   deps, nx, G,
                   betweenness, closeness, in_degree, out_degree, spof_scores, true_spofs,
                   critical_paths, edge_i, node_i, src_i, dst_i, walk, paths>>

\* Entry: G = nx.DiGraph(), and every declared node is added with its attributes.
DepgraphInvoke ==
    /\ pc = "idle" /\ calls > 0 /\ entry = "run_dependency_graph" /\ nx
    /\ calls' = calls - 1
    /\ G' = [nodes |-> [i \in 1..Len(deps.nodes) |-> deps.nodes[i].id], edges |-> << >>]
    /\ edge_i' = 1
    /\ pc' = "edges"
    /\ UNCHANGED <<cfg, entry, returned, gen, drawn, mcVars, demoVars, repVars, cliVars, utilVars,
                   deps, nx,
                   betweenness, closeness, in_degree, out_degree, spof_scores, true_spofs,
                   critical_paths, node_i, src_i, dst_i, walk, paths, error>>

\* for src, dst, weight in VENDOR_DEPENDENCIES["edges"]: G.add_edge(...)
AddDependency ==
    /\ pc = "edges" /\ edge_i <= Len(deps.edges)
    /\ G' = AddEdge(G, deps.edges[edge_i])
    /\ edge_i' = edge_i + 1
    /\ UNCHANGED <<mcLocals, returned, pc, betweenness, closeness, in_degree, out_degree,
                   spof_scores, true_spofs, critical_paths, node_i, src_i, dst_i, walk,
                   paths, error>>

\* The centrality metrics; spof_scores = {}; max_out.
Centrality ==
    /\ pc = "edges" /\ edge_i > Len(deps.edges)
    /\ betweenness' = [v \in Range(G.nodes) |-> BetweennessOf(G, v)]
    /\ closeness'   = [v \in Range(G.nodes) |-> ClosenessOf(G, v)]
    /\ in_degree'   = [v \in Range(G.nodes) |-> InDegreeOf(G, v)]
    /\ out_degree'  = [v \in Range(G.nodes) |-> OutDegreeOf(G, v)]
    /\ spof_scores' = << >>
    /\ node_i' = 1
    /\ IF MaxHasValue([v \in Range(G.nodes) |-> OutDegreeOf(G, v)])
       THEN pc' = "score" /\ error' = error
       ELSE pc' = "raised" /\ error' = "ValueError"
    /\ UNCHANGED <<mcLocals, edge_i, returned, G, true_spofs, critical_paths, src_i, dst_i,
                   walk, paths>>

\* for node in G.nodes(): the score of a declared node.
ScoreNode ==
    /\ pc = "score" /\ node_i <= Len(G.nodes) /\ Declared(deps, G.nodes[node_i])
    /\ spof_scores' = (G.nodes[node_i] :>
                          ScoreOf(deps, betweenness, closeness, out_degree, G.nodes[node_i]))
                      @@ spof_scores
    /\ node_i' = node_i + 1
    /\ UNCHANGED <<mcLocals, edge_i, returned, pc, G, betweenness, closeness, in_degree, out_degree,
                   true_spofs, critical_paths, src_i, dst_i, walk, paths, error>>

\* VENDOR_DEPENDENCIES["nodes"][node] for a node that add_edge created.
ScoreKeyError ==
    /\ pc = "score" /\ node_i <= Len(G.nodes) /\ ~Declared(deps, G.nodes[node_i])
    /\ error' = "KeyError"
    /\ pc' = "raised"
    /\ UNCHANGED <<mcLocals, edge_i, returned, G, betweenness, closeness, in_degree, out_degree,
                   spof_scores, true_spofs, critical_paths, node_i, src_i, dst_i, walk, paths>>

\* true_spofs = [...]; critical_paths = []; the two path loops start.
ClassifySpofs ==
    /\ pc = "score" /\ node_i > Len(G.nodes)
    /\ true_spofs' = TrueSpofs(deps, spof_scores)
    /\ critical_paths' = << >>
    /\ src_i' = 1 /\ dst_i' = 1
    /\ pc' = "pairs"
    /\ UNCHANGED <<mcLocals, edge_i, returned, G, betweenness, closeness, in_degree, out_degree,
                   spof_scores, node_i, walk, paths, error>>

\* for src in G.nodes(): for dst in G.nodes(): the pair after the current one.
NextPair ==
    /\ src_i' = IF dst_i < Len(G.nodes) THEN src_i ELSE src_i + 1
    /\ dst_i' = IF dst_i < Len(G.nodes) THEN dst_i + 1 ELSE 1

\* if src != dst fails.
SamePair ==
    /\ pc = "pairs" /\ src_i <= Len(G.nodes) /\ src_i = dst_i
    /\ NextPair
    /\ UNCHANGED <<mcLocals, edge_i, returned, pc, G, betweenness, closeness, in_degree, out_degree,
                   spof_scores, true_spofs, critical_paths, node_i, walk, paths, error>>

\* nx.all_simple_paths(G, src, dst) starts at src.
StartWalk ==
    /\ pc = "pairs" /\ src_i <= Len(G.nodes) /\ src_i # dst_i
    /\ walk' = [path |-> <<G.nodes[src_i]>>, next |-> <<1>>]
    /\ paths' = << >>
    /\ pc' = "walk"
    /\ UNCHANGED <<mcLocals, edge_i, returned, G, betweenness, closeness, in_degree, out_degree,
                   spof_scores, true_spofs, critical_paths, node_i, src_i, dst_i, error>>

\* The node the walk stands on, its successors, and the successor tried next.
Top      == walk.path[Len(walk.path)]
Children == Successors(G, Top)
ChildAt  == walk.next[Len(walk.next)]
\* (variant for C27: the iterator over the successors never advanced)
FirstChild == Children[1]
Child    == Children[ChildAt]
Tried    == [walk EXCEPT !.next[Len(walk.next)] = @ + 1]

walkFrame == <<mcLocals, edge_i, returned, G, betweenness, closeness, in_degree, out_degree,
               spof_scores, true_spofs, critical_paths, node_i, src_i, dst_i, error>>

\* The successors of the top node are exhausted: one step back.
Backtrack ==
    /\ pc = "walk" /\ ChildAt > Len(Children)
    /\ walk' = [path |-> SubSeq(walk.path, 1, Len(walk.path) - 1),
                next |-> SubSeq(walk.next, 1, Len(walk.next) - 1)]
    /\ pc' = IF Len(walk.path) = 1 THEN "retain" ELSE "walk"
    /\ UNCHANGED <<walkFrame, paths>>

\* The successor is on the path already: it is passed over.
SkipVisited ==
    /\ pc = "walk" /\ ChildAt <= Len(Children) /\ Visited(walk.path, Child)
    /\ walk' = Tried
    /\ UNCHANGED <<walkFrame, pc, paths>>

\* The successor is the target: the path is yielded and not extended.
YieldPath ==
    /\ pc = "walk" /\ ChildAt <= Len(Children) /\ ~Visited(walk.path, Child)
    /\ Child = G.nodes[dst_i]
    /\ paths' = Append(paths, Append(walk.path, Child))
    /\ walk' = Tried
    /\ UNCHANGED <<walkFrame, pc>>

\* Any other successor extends the path.
Descend ==
    /\ pc = "walk" /\ ChildAt <= Len(Children) /\ ~Visited(walk.path, Child)
    /\ Child # G.nodes[dst_i]
    /\ walk' = [path |-> Append(walk.path, Child), next |-> Append(Tried.next, 1)]
    /\ UNCHANGED <<walkFrame, pc, paths>>

\* for path in paths: the paths of three nodes and more, with their weights.
RetainPaths ==
    /\ pc = "retain"
    /\ critical_paths' = critical_paths \o RetainedPaths(G, paths)
    /\ NextPair
    /\ pc' = "pairs"
    /\ UNCHANGED <<mcLocals, edge_i, returned, G, betweenness, closeness, in_degree, out_degree,
                   spof_scores, true_spofs, node_i, walk, paths, error>>

\* critical_paths.sort(key=lambda x: x[1], reverse=True)
RankPaths ==
    /\ pc = "pairs" /\ src_i > Len(G.nodes)
    /\ critical_paths' = Ranked(critical_paths)
    /\ pc' = "format"
    /\ UNCHANGED <<mcLocals, edge_i, returned, G, betweenness, closeness, in_degree, out_degree,
                   spof_scores, true_spofs, node_i, src_i, dst_i, walk, paths, error>>

\* return _format_depgraph_report(...)
DepgraphReturn ==
    /\ pc = "format"
    /\ returned' = Append(returned,
                          FormatDepgraph(deps, G, spof_scores, true_spofs, critical_paths))
    /\ pc' = "idle"
    /\ UNCHANGED <<mcLocals, graphVars, cliVars, utilVars>>

Depgraph ==
    \/ NetworkxMissing \/ DepgraphInvoke \/ AddDependency \/ Centrality \/ ScoreNode \/ ScoreKeyError
    \/ ClassifySpofs \/ SamePair \/ StartWalk \/ Backtrack \/ SkipVisited \/ YieldPath
    \/ Descend \/ RetainPaths \/ RankPaths \/ DepgraphReturn

(***************************************************************************)
(* Specification SpecGraph: one invocation of run_dependency_graph, for    *)
(* the shipped VENDOR_DEPENDENCIES and for small graphs around the cases   *)
(* of its contract.                                                        *)
(***************************************************************************)
\* "unrated" stands for any criticality outside the weight table.
Tiers == {"critical", "high", "medium", "low", "unrated"}

NoDependencies == [nodes |-> << >>, edges |-> << >>]

\* The chain A -> B -> C with weights 5 and 5; A is critical, without
\* alternatives.
ChainExample(tier, k) ==
    [nodes |-> << Vendor("A", "critical", 0), Vendor("B", tier, k), Vendor("C", tier, k) >>,
     edges |-> << <<"A", "B", 5>>, <<"B", "C", 5>> >>]

\* A cycle through every node, a chord back, and a self-loop.
CycleExample ==
    [nodes |-> << Vendor("A", "high", 1), Vendor("B", "medium", 0), Vendor("C", "low", 2) >>,
     edges |-> << <<"A", "B", 4>>, <<"B", "C", 6>>, <<"C", "A", 2>>,
                  <<"C", "B", 3>>, <<"A", "A", 1>> >>]

\* Edges whose destination (Z) and whose source (Y) are not declared.
DanglingExample ==
    [nodes |-> << Vendor("A", "high", 0), Vendor("B", "medium", 1) >>,
     edges |-> << <<"A", "B", 5>>, <<"B", "Z", 3>>, <<"Y", "A", 2>> >>]

\* Every ordered pair of four nodes connected: 48 paths of three nodes and
\* more.
CompleteExample ==
    [nodes |-> << Vendor("A", "critical", 0), Vendor("B", "high", 1),
                  Vendor("C", "medium", 0), Vendor("D", "low", 2) >>,
     edges |-> << <<"A", "B", 1>>, <<"A", "C", 4>>, <<"A", "D", 9>>,
                  <<"B", "A", 2>>, <<"B", "C", 7>>, <<"B", "D", 3>>,
                  <<"C", "A", 8>>, <<"C", "B", 5>>, <<"C", "D", 6>>,
                  <<"D", "A", 10>>, <<"D", "B", 4>>, <<"D", "C", 1>> >>]

\* X and Y differ in their alternatives only.
TwinsExample(tier, k) ==
    [nodes |-> << Vendor("X", tier, 0), Vendor("Y", tier, k), Vendor("Z", "medium", 1) >>,
     edges |-> << <<"X", "Z", 6>>, <<"Y", "Z", 6>> >>]

\* S scores exactly 10.0: 100 * (0.20 * 7/20 + 0.15 * 0.2).
ThresholdExample ==
    [nodes |-> << Vendor("S", "low", 0), Vendor("T", "high", 1),
                  Vendor("U", "critical", 1), Vendor("V", "medium", 0) >>,
     edges |-> << <<"S", "T", 7>>, <<"U", "T", 10>>, <<"U", "V", 10>> >>]

\* Nodes without any edge.
IsolatedExample(tier, k) ==
    [nodes |-> << Vendor("A", tier, k), Vendor("B", tier, 0) >>, edges |-> << >>]

MaxAlternatives == 2    \* a node of the small graphs lists at most this many alternatives

Dependencies ==
    {VENDOR_DEPENDENCIES, NoDependencies, CycleExample, DanglingExample,
     CompleteExample, ThresholdExample}
    \cup { ChainExample(t, k) : t \in Tiers, k \in 0..MaxAlternatives }
    \cup { TwinsExample(t, k) : t \in Tiers, k \in 1..MaxAlternatives }
    \cup { IsolatedExample(t, k) : t \in Tiers, k \in 0..MaxAlternatives }

\* The Monte Carlo configuration of the module as shipped is not read by
\* run_dependency_graph.
InitGraph ==
    /\ cfg = [streams |-> <<ExampleStream>>, liquidity_floor |-> LiquidityFloor,
              concentration_cap |-> ConcentrationCap, months |-> ReportMonths, scenarios |-> 1]
    /\ entry = "run_dependency_graph"
    /\ calls = 1
    /\ deps \in Dependencies
    /\ nx \in BOOLEAN
    /\ argv = << >>
    /\ InitLocals

NextGraph == Depgraph

SpecGraph == InitGraph /\ [][NextGraph]_vars

\* The run is a sequential program: it keeps taking steps until it ends.
SpecGraphLive == SpecGraph /\ WF_vars(NextGraph)

(***************************************************************************)
(* Specification SpecMain: main() dispatching to one of the two engines.   *)
(***************************************************************************)
InitMain ==
    /\ \/ /\ entry = "run_monte_carlo"
          /\ cfg \in Runs(MaxDetDraws)
          /\ deps = VENDOR_DEPENDENCIES /\ nx = TRUE
          /\ argv = << >>
       \/ InitGraph
    /\ calls = 1
    /\ InitLocals

NextMain == Simulate \/ Depgraph

SpecMain == InitMain /\ [][NextMain]_vars

(***************************************************************************)
(* main(): the commands table and the dispatch on sys.argv.  argv holds    *)
(* the arguments after the program name.  The language-model call behind   *)
(* run_command is outside the program: it has no key, fails, or answers.   *)
(***************************************************************************)
\* The keys of the commands table.
Commands ==
    {"weekly", "monthly", "quarterly", "absence", "healthcheck",
     "decision", "montecarlo", "depgraph", "ingest"}

\* The commands of the module docstring.
Documented ==
    {"weekly", "monthly", "quarterly", "absence", "decision",
     "montecarlo", "depgraph", "healthcheck", "ingest"}

\* commands[cmd][1]: lambda: run_command(cmd), or None ("handled separately").
TableFunction(cmd) ==
    IF cmd \in {"weekly", "monthly", "quarterly", "absence", "healthcheck"}
    THEN "run_command" ELSE "None"

\* What the language-model call can do.
ApiOutcomes == {"no_key", "api_error", "answer"}

mainFrame == <<cfg, returned, gen, drawn, mcVars, demoVars, repVars, graphVars, argv, utilVars>>

\* if len(sys.argv) < 2 or sys.argv[1] not in commands: usage, sys.exit(0)
Usage ==
    /\ pc = "main" /\ (IF Len(argv) < 1 THEN TRUE ELSE argv[1] \notin Commands)
    /\ exit_status' = 0
    /\ pc' = "exit"
    /\ UNCHANGED <<mainFrame, entry, calls, handler>>

\* decision without a context: the error message and sys.exit(1)
DecisionWithoutContext ==
    /\ pc = "main" /\ Len(argv) = 1 /\ argv[1] = "decision"
    /\ exit_status' = 1
    /\ pc' = "exit"
    /\ UNCHANGED <<mainFrame, entry, calls, handler>>

\* tier1_decision(" ".join(sys.argv[2:]))
DispatchDecision ==
    /\ pc = "main" /\ Len(argv) >= 2 /\ argv[1] = "decision"
    /\ handler' = "tier1_decision"
    /\ pc' = "handler"
    /\ UNCHANGED <<mainFrame, entry, calls, exit_status>>

\* report_content = run_monte_carlo()
DispatchMontecarlo ==
    /\ pc = "main" /\ Len(argv) >= 1 /\ argv[1] = "montecarlo"
    /\ handler' = "run_monte_carlo"
    /\ entry' = "run_monte_carlo" /\ calls' = 1
    /\ pc' = "idle"
    /\ UNCHANGED <<mainFrame, exit_status>>

\* report_content = run_dependency_graph()
DispatchDepgraph ==
    /\ pc = "main" /\ Len(argv) >= 1 /\ argv[1] = "depgraph"
    /\ handler' = "run_dependency_graph"
    /\ entry' = "run_dependency_graph" /\ calls' = 1
    /\ pc' = "idle"
    /\ UNCHANGED <<mainFrame, exit_status>>

\* else: _, func = commands[cmd]; func().  Calling None raises TypeError.
DispatchTable ==
    /\ pc = "main" /\ Len(argv) >= 1
    /\ argv[1] \in Commands \ {"decision", "montecarlo", "depgraph"}
    /\ IF TableFunction(argv[1]) = "None"
       THEN /\ error' = "TypeError"
            /\ pc' = "raised"
            /\ UNCHANGED handler
       ELSE /\ handler' = TableFunction(argv[1])
            /\ pc' = "handler"
            /\ UNCHANGED error
    /\ UNCHANGED <<cfg, returned, gen, drawn, mcVars, demoVars, repVars, argv, utilVars,
                   entry, calls, exit_status, deps, nx, G, betweenness, closeness,
                   in_degree, out_degree, spof_scores, true_spofs, critical_paths,
                   edge_i, node_i, src_i, dst_i, walk, paths>>

\* run_command: get_client() exits with 1 without a key; the call raises or
\* answers; an answer is saved by save_report.
RunCommand ==
    /\ pc = "handler"
    /\ \E outcome \in ApiOutcomes :
          CASE outcome = "no_key" ->
                  exit_status' = 1 /\ pc' = "exit" /\ UNCHANGED error
            [] outcome = "api_error" ->
                  error' = "APIError" /\ pc' = "raised" /\ UNCHANGED exit_status
            [] OTHER ->
                  pc' = "done" /\ UNCHANGED <<error, exit_status>>
    /\ UNCHANGED <<cfg, returned, gen, drawn, mcVars, demoVars, repVars, argv, utilVars,
                   entry, calls, handler, deps, nx, G, betweenness, closeness,
                   in_degree, out_degree, spof_scores, true_spofs, critical_paths,
                   edge_i, node_i, src_i, dst_i, walk, paths>>

\* save_report(cmd, report_content) after the engine has returned.
SaveEngineReport ==
    /\ pc = "idle" /\ calls = 0 /\ returned # << >>
    /\ handler \in {"run_monte_carlo", "run_dependency_graph"}
    /\ pc' = "done"
    /\ UNCHANGED <<mainFrame, entry, calls, handler, exit_status>>

Main ==
    \/ Usage \/ DecisionWithoutContext \/ DispatchDecision \/ DispatchMontecarlo
    \/ DispatchDepgraph \/ DispatchTable \/ RunCommand \/ SaveEngineReport

(***************************************************************************)
(* Specification SpecCli: one run of main() for every command line of      *)
(* Arguments; the two engines run on the configurations of SpecMain.       *)
(***************************************************************************)
Arguments ==
    {<< >>, <<"status">>, <<"status", "weekly">>, <<"decision", "Should I invest?">>,
     <<"decision", "Should", "I", "invest?">>, <<"weekly", "now">>}
    \cup { <<c>> : c \in Commands }

InitCli ==
    /\ argv \in Arguments
    /\ entry = "main"
    /\ calls = 0
    /\ IF argv = <<"montecarlo">> THEN cfg \in Runs(MaxDetDraws)
       ELSE cfg = [streams |-> <<ExampleStream>>, liquidity_floor |-> LiquidityFloor,
                   concentration_cap |-> ConcentrationCap, months |-> ReportMonths,
                   scenarios |-> 1]
    /\ IF argv = <<"depgraph">> THEN deps \in Dependencies /\ nx \in BOOLEAN
       ELSE deps = VENDOR_DEPENDENCIES /\ nx = TRUE
    /\ returned = << >>
    /\ gen = [pos |-> 0, tape |-> << >>]
    /\ drawn = NoDraw
    /\ pc = "main"
    /\ scenario_id = 0 /\ month = 0 /\ sidx = 1
    /\ cash_reserve = 0 /\ months_survived = 0
    /\ liquidity_breaches = 0 /\ concentration_violations = 0
    /\ month_revenue = 0 /\ month_by_stream = << >>
    /\ monthly_totals = << >> /\ stream_revenues = << >> /\ expense_log = << >>
    /\ reserve_log = << >>
    /\ results = << >>
    /\ trial = 0 /\ doc_scores = << >> /\ demo_results = << >>
    /\ report_in = << >> /\ report_out = << >>
    /\ GraphLocals
    /\ CliLocals /\ UtilLocals

NextCli == Main \/ Simulate \/ Depgraph

SpecCli == InitCli /\ [][NextCli]_vars

(***************************************************************************)
(* decision_compress (demo/run_demo.py).  A rating (impact, urgency,       *)
(* effort) is held in tenths, the score before rounding in hundredths and  *)
(* priority_score, the score rounded to one decimal, in tenths.            *)
(***************************************************************************)
Task(name, impact, urgency, effort) ==
    [name |-> name, impact |-> impact, urgency |-> urgency, effort |-> effort]

\* The weights of the score, in tenths, and the scale effort is taken from.
ImpactPart  == 4
UrgencyPart == 3
EffortPart  == 3
EffortScale == 10

\* score = t["impact"] * 0.4 + t["urgency"] * 0.3 + (10 - t["effort"]) * 0.3
Score(t) ==
    ImpactPart * t.impact + UrgencyPart * t.urgency
        + EffortPart * (EffortScale * 10 - t.effort)

\* round(score, 1)
PriorityScore(t) == RoundDiv(Score(t), 10, 1)

\* (variant for C23: the entry keeping the inverted effort of the formula)
WithInvertedEffort(t) ==
    [name |-> t.name, impact |-> t.impact, urgency |-> t.urgency,
     effort |-> EffortScale * 10 - t.effort, priority_score |-> PriorityScore(t)]
\* {**t, "priority_score": round(score, 1)}
WithPriority(t) ==
    [name |-> t.name, impact |-> t.impact, urgency |-> t.urgency,
     effort |-> t.effort, priority_score |-> PriorityScore(t)]

\* (variant for C22: the list returned as scored)
InInputOrder(s) == s
\* sorted(scored, key=lambda x: -x["priority_score"]) is stable: an entry
\* comes after the entries of greater score and after the earlier entries of
\* equal score.
ByPriority(s) ==
    LET place(i) == 1 + Cardinality({j \in 1..Len(s) : s[j].priority_score > s[i].priority_score})
                      + Cardinality({j \in 1..(i - 1) : s[j].priority_score = s[i].priority_score})
    IN  [k \in 1..Len(s) |-> s[CHOOSE i \in 1..Len(s) : place(i) = k]]

compressFrame == <<cfgVars, gen, drawn, mcVars, demoVars, repVars, graphVars, cliVars,
                   tasks, docs, doc_i, doc_from, doc_at>>

\* Entry: scored = [].
CompressInvoke ==
    /\ pc = "idle" /\ calls > 0 /\ entry = "decision_compress"
    /\ calls' = calls - 1
    /\ scored' = << >>
    /\ pc' = "tasks"
    /\ UNCHANGED <<cfg, entry, returned, gen, drawn, mcVars, demoVars, repVars, graphVars,
                   cliVars, tasks, docs, doc_i, doc_from, doc_at>>

\* for t in tasks: scored.append({**t, "priority_score": round(score, 1)})
ScoreTask ==
    /\ pc = "tasks" /\ Len(scored) < Len(tasks)
    /\ scored' = Append(scored, WithPriority(tasks[Len(scored) + 1]))
    /\ UNCHANGED <<compressFrame, returned, pc>>

\* return sorted(scored, key=lambda x: -x["priority_score"])
CompressReturn ==
    /\ pc = "tasks" /\ Len(scored) >= Len(tasks)
    /\ returned' = Append(returned, ByPriority(scored))
    /\ pc' = "idle"
    /\ UNCHANGED <<compressFrame, scored>>

Compress == CompressInvoke \/ ScoreTask \/ CompressReturn

(***************************************************************************)
(* Specification SpecCompress: one invocation of decision_compress on the  *)
(* lists of up to MaxTasks tasks of TaskPool.                              *)
(***************************************************************************)
MaxTasks == 3

\* Tasks on the scale of the demo: whole-number ratings and one rating with a
\* decimal ("fiddly", effort 3.1); "easy", "fiddly" and "urgent" share a
\* priority_score, "easy", "fiddly" and "hard" share impact and urgency.
TaskPool ==
    { Task("easy", 50, 50, 30), Task("fiddly", 50, 50, 31), Task("hard", 50, 50, 40),
      Task("urgent", 20, 90, 30), Task("low", 10, 10, 90), Task("high", 100, 100, 10) }

TaskLists == UNION { [1..n -> TaskPool] : n \in 0..MaxTasks }

InitCompress ==
    /\ cfg = [streams |-> <<ExampleStream>>, liquidity_floor |-> LiquidityFloor,
              concentration_cap |-> ConcentrationCap, months |-> ReportMonths, scenarios |-> 1]
    /\ entry = "decision_compress"
    /\ calls = 1
    /\ deps = VENDOR_DEPENDENCIES /\ nx = TRUE
    /\ argv = << >>
    /\ returned = << >>
    /\ gen = [pos |-> 0, tape |-> << >>]
    /\ drawn = NoDraw
    /\ pc = "idle"
    /\ scenario_id = 0 /\ month = 0 /\ sidx = 1
    /\ cash_reserve = 0 /\ months_survived = 0
    /\ liquidity_breaches = 0 /\ concentration_violations = 0
    /\ month_revenue = 0 /\ month_by_stream = << >>
    /\ monthly_totals = << >> /\ stream_revenues = << >> /\ expense_log = << >>
    /\ reserve_log = << >>
    /\ results = << >>
    /\ trial = 0 /\ doc_scores = << >> /\ demo_results = << >>
    /\ report_in = << >> /\ report_out = << >>
    /\ GraphLocals
    /\ CliLocals
    /\ tasks \in TaskLists /\ scored = << >>
    /\ docs = << >> /\ doc_i = 0
    /\ doc_from = "" /\ doc_at = ""

NextCompress == Compress

SpecCompress == InitCompress /\ [][NextCompress]_vars

(***************************************************************************)
(* build_dependency_graph (demo/run_demo.py): the sample document graph,   *)
(* a dict held as the sequence of its entries in insertion order, and a    *)
(* reader who opens a document of the returned graph and follows           *)
(* depends_on links for as long as there is one.                           *)
(***************************************************************************)
NumDocs == 39

\* f"DOC-{i:03d}"
DocId(i) ==
    IF i < 10 THEN "DOC-00" \o ToString(i)
    ELSE IF i < 100 THEN "DOC-0" \o ToString(i)
    ELSE "DOC-" \o ToString(i)

\* 0 if i <= 6 else 1 if i <= 9 else 2 if i <= 23 else 3
Layer(i) == IF i <= 6 THEN 0 ELSE IF i <= 9 THEN 1 ELSE IF i <= 23 THEN 2 ELSE 3

\* (variant for C24: range(1, min(4, i) + 1))
DependsOnInclusive(i) == [j \in 1..Min(4, i) |-> DocId(Max(1, i - j))]
\* (variant for C30: range(1, min(5, i)))
DependsOnFour(i) == [j \in 1..(Min(5, i) - 1) |-> DocId(Max(1, i - j))]
\* [f"DOC-{max(1,i-j):03d}" for j in range(1, min(4, i))]
DependsOn(i) == [j \in 1..(Min(4, i) - 1) |-> DocId(Max(1, i - j))]

\* The entry of document i.
Document(i) ==
    [id |-> DocId(i), layer |-> Layer(i), depends_on |-> DependsOn(i), status |-> "CANONICAL"]

HasDocument(g, id) == \E k \in 1..Len(g) : g[k].id = id
\* g[id]
DocumentOf(g, id) == g[CHOOSE k \in 1..Len(g) : g[k].id = id]

docsFrame == <<cfg, entry, gen, drawn, mcVars, demoVars, repVars, cliVars, tasks, scored,
               deps, nx, G, betweenness, closeness, in_degree, out_degree, spof_scores,
               true_spofs, critical_paths, edge_i, node_i, src_i, dst_i, walk, paths>>

\* Entry: the comprehension starts with an empty dict.
BuildInvoke ==
    /\ pc = "idle" /\ calls > 0 /\ entry = "build_dependency_graph"
    /\ calls' = calls - 1
    /\ docs' = << >>
    /\ doc_i' = 1
    /\ pc' = "docs"
    /\ UNCHANGED <<cfg, entry, returned, gen, drawn, mcVars, demoVars, repVars, graphVars,
                   cliVars, tasks, scored, doc_from, doc_at>>

\* for i in range(1, 40): the entry of DOC-i
BuildDocument ==
    /\ pc = "docs" /\ doc_i <= NumDocs
    /\ docs' = Append(docs, Document(doc_i))
    /\ doc_i' = doc_i + 1
    /\ UNCHANGED <<docsFrame, calls, returned, pc, doc_from, doc_at, error>>

\* return docs
BuildReturn ==
    /\ pc = "docs" /\ doc_i > NumDocs
    /\ returned' = Append(returned, docs)
    /\ pc' = "idle"
    /\ UNCHANGED <<docsFrame, calls, docs, doc_i, doc_from, doc_at, error>>

\* The reader opens a document of the returned graph.
OpenDocument ==
    /\ pc = "idle" /\ entry = "build_dependency_graph" /\ returned # << >>
    /\ \E k \in 1..Len(returned[1]) :
          doc_from' = returned[1][k].id /\ doc_at' = returned[1][k].id
    /\ pc' = "reading"
    /\ UNCHANGED <<docsFrame, calls, returned, docs, doc_i, error>>

\* The reader follows one of the links of the document reached; graph[dep]
\* of a document that is not in the graph raises KeyError.
FollowLink ==
    /\ pc = "reading"
    /\ \E k \in 1..Len(DocumentOf(returned[1], doc_at).depends_on) :
          LET dep == DocumentOf(returned[1], doc_at).depends_on[k]
          IN  IF HasDocument(returned[1], dep)
              THEN doc_at' = dep /\ UNCHANGED <<pc, error>>
              ELSE error' = "KeyError" /\ pc' = "raised" /\ UNCHANGED doc_at
    /\ UNCHANGED <<docsFrame, calls, returned, docs, doc_i, doc_from>>

\* The document reached has no links: the reader stops.
CloseDocument ==
    /\ pc = "reading" /\ DocumentOf(returned[1], doc_at).depends_on = << >>
    /\ pc' = "read"
    /\ UNCHANGED <<docsFrame, calls, returned, docs, doc_i, doc_from, doc_at, error>>

Documents ==
    BuildInvoke \/ BuildDocument \/ BuildReturn \/ OpenDocument \/ FollowLink \/ CloseDocument

(***************************************************************************)
(* Specification SpecDocs: build_dependency_graph is called once and its   *)
(* graph is read from any document.  SpecDocsLive: the call and the reader *)
(* keep taking steps.                                                      *)
(***************************************************************************)
InitDocs ==
    /\ cfg = [streams |-> <<ExampleStream>>, liquidity_floor |-> LiquidityFloor,
              concentration_cap |-> ConcentrationCap, months |-> ReportMonths, scenarios |-> 1]
    /\ entry = "build_dependency_graph"
    /\ calls = 1
    /\ deps = VENDOR_DEPENDENCIES /\ nx = TRUE
    /\ argv = << >>
    /\ InitLocals

NextDocs == Documents

SpecDocs == InitDocs /\ [][NextDocs]_vars

SpecDocsLive == SpecDocs /\ WF_vars(NextDocs)

(***************************************************************************)
(* Specification SpecRules: one invocation of run_monte_carlo on           *)
(* configurations whose reserves and revenue shares fall on and around the *)
(* thresholds of the stop rules and of the survival check.                 *)
(***************************************************************************)
\* A fixed revenue of 500: with expenses of 10500 the reserve is -10000
\* after one month and exactly -20000 after two.
CreditStream ==
    [monthly_base |-> 500, monthly_upside |-> 500, probability_active |-> 100, volatility |-> 0]

\* Floor 500: the reserve after a month of ExampleStream (1000) with expenses
\* of 500.  Floor 0: the reserve after a month of CreditStream with expenses
\* of 500.  Cap 0.50: the share of each of two equal streams.  Cap 1.00: the
\* share of a single stream.
RuleConfigurations ==
    { [streams |-> <<ExampleStream>>, liquidity_floor |-> 500, concentration_cap |-> ConcentrationCap],
      [streams |-> <<ExampleStream>>, liquidity_floor |-> 500, concentration_cap |-> 100],
      [streams |-> <<ExampleStream, ExampleStream>>, liquidity_floor |-> LiquidityFloor, concentration_cap |-> 50],
      [streams |-> <<CreditStream>>, liquidity_floor |-> 0, concentration_cap |-> ConcentrationCap],
      [streams |-> <<SteadyStream, DormantStream>>, liquidity_floor |-> LiquidityFloor, concentration_cap |-> 50] }

RuleRuns ==
    { [streams |-> c.streams, liquidity_floor |-> c.liquidity_floor,
       concentration_cap |-> c.concentration_cap, months |-> h, scenarios |-> n] :
      <<c, h, n>> \in { t \in RuleConfigurations \X (1..MaxMonths) \X (1..MaxScenarios) :
                        WorstDraws(t[1], t[2], t[3]) <= MaxDraws } }

InitRules ==
    /\ cfg \in RuleRuns
    /\ entry = "run_monte_carlo"
    /\ calls = 1
    /\ deps = VENDOR_DEPENDENCIES /\ nx = TRUE
    /\ argv = << >>
    /\ InitLocals

NextRules == Simulate

SpecRules == InitRules /\ [][NextRules]_vars

(***************************************************************************)
(* Claims about run_monte_carlo, checked under Spec.                       *)
(***************************************************************************)
Last(s) == s[Len(s)]
Drew == gen'.pos = gen.pos + 1

\* C2 (horizon bound): in every state of a trajectory and in every emitted
\* ScenarioResult, 0 <= months_survived <= horizon_months.
C2_HorizonBound ==
    /\ 0 <= months_survived /\ months_survived <= cfg.months
    /\ \A i \in 1..Len(results) :
          0 <= results[i].months_survived /\ results[i].months_survived <= cfg.months

\* C2 witness: a finished run with a scenario that survived the whole horizon
\* and one that did not.
C2_Witness ==
    /\ pc = "idle" /\ returned # << >>
    /\ \E i, j \in 1..Len(results) :
          /\ results[i].months_survived = cfg.months
          /\ results[j].months_survived < cfg.months

\* C3 (early termination): months are taken in the order 1..H; in month m a
\* reserve above -20000 sets months_survived to m and goes on to the next month,
\* any other reserve ends the trajectory at once: months_survived stays m - 1, the
\* result is emitted next, and the scenario draws nothing more (a draw is only
\* ever made by a scenario that has survived every earlier month).
C3_EarlyTermination ==
    [][ /\ (month' # month) => (month' = month + 1 \/ (month' = 0 /\ pc = "scenario"))
        /\ (pc = "survival" /\ cash_reserve > -20000 * 1000) =>
              (months_survived' = month /\ pc' = "month" /\ month' = month)
        /\ (pc = "survival" /\ cash_reserve <= -20000 * 1000) =>
              (months_survived' = month - 1 /\ pc' = "emit" /\ gen' = gen)
        /\ (pc = "emit") =>
              (pc' = "scenario" /\ gen' = gen /\ month' = month
                 /\ Last(results').months_survived = months_survived)
        /\ Drew => (months_survived = month - 1 /\ 1 <= month /\ month <= cfg.months)
      ]_vars

\* C3 witness: a trajectory that stopped with months of the horizon left.
C3_Witness ==
    pc = "emit" /\ months_survived = month - 1 /\ month < cfg.months

\* C4 (revenue non-negativity): every realized stream revenue is >= 0, whatever
\* the noise draw and the stream's parameters, and a stream found inactive has
\* revenue exactly 0.
C4_RevenueNonNegative ==
    /\ \A i \in 1..Len(month_by_stream) : month_by_stream[i] >= 0
    /\ month_revenue >= 0
    /\ \A i \in 1..Len(stream_revenues) :
          \A k \in 1..Len(stream_revenues[i]) : stream_revenues[i][k] >= 0
    /\ \A i \in 1..Len(results) :
          \A k \in 1..Len(results[i].stream_totals) : results[i].stream_totals[k] >= 0
    /\ (drawn.kind = "activation" /\ pc # "noise") => Last(month_by_stream) = 0

\* C4 witness: an active stream whose parameters and noise put base + upside *
\* factor below zero, recorded as 0, next to a positive one.
C4_Witness ==
    /\ pc = "survival" /\ drawn.kind = "expenses"
    /\ cfg.streams[1].monthly_upside < cfg.streams[1].monthly_base
    /\ Len(stream_revenues[1]) = 2
    /\ stream_revenues[1][1] = 0 /\ stream_revenues[1][2] > 0

\* C7 (survival rate): the reported survival rate is the fraction of the
\* scenarios whose months_survived equals the horizon H.
C7_SurvivalRate ==
    (pc = "idle" /\ returned # << >>) =>
        LET atHorizon == Cardinality({i \in 1..Len(results) :
                                         results[i].months_survived = cfg.months})
        IN  /\ Last(returned).report.survived_12 = atHorizon
            /\ Last(returned).report.survival_rate =
                  RoundDiv(atHorizon * 1000, Len(results), 1)

\* C8 (scenario example): one stream with base = upside = 1000, probability 1,
\* volatility 0, horizon 3, every month's expenses 500, starting cash 0: the
\* scenario ends with final cash 1500, months_survived 3, and no liquidity breach
\* when liquidity_floor <= 0.
C8_ExampleRun ==
    /\ cfg.streams = << [monthly_base |-> 1000, monthly_upside |-> 1000,
                         probability_active |-> 100, volatility |-> 0] >>
    /\ cfg.months = 3
    /\ \A k \in 1..Len(expense_log) : expense_log[k] = 500 * 1000
C8_ScenarioExample ==
    (C8_ExampleRun /\ pc = "scenario" /\ results # << >>) =>
        /\ Last(results).final_cash = 1500 * 1000
        /\ Last(results).months_survived = 3
        /\ (cfg.liquidity_floor <= 0 => Last(results).liquidity_breaches = 0)

\* C8 witness: the example has been run to its result, with a floor <= 0.
C8_Witness ==
    /\ C8_ExampleRun /\ pc = "scenario" /\ results # << >>
    /\ Len(expense_log) = 3 /\ cfg.liquidity_floor <= 0
    /\ Last(results).final_cash = 1500 * 1000

\* C9 (draw order): the draws are consumed scenario by scenario, month by month,
\* and within a month stream by stream in configuration order: one activation
\* draw per stream, then that stream's noise draw when it is active, and one
\* expense draw after the last stream.
C9_NextStream(d) ==
    IF d.stream < NumStreams
    THEN [scenario |-> d.scenario, month |-> d.month, stream |-> d.stream + 1, kind |-> "activation"]
    ELSE [scenario |-> d.scenario, month |-> d.month, stream |-> 0, kind |-> "expenses"]
C9_Follows(d, at, cash) ==
    CASE d.kind = "none" ->
            [scenario |-> 0, month |-> 1, stream |-> 1, kind |-> "activation"]
      [] d.kind = "activation" /\ at = "noise" ->
            [scenario |-> d.scenario, month |-> d.month, stream |-> d.stream, kind |-> "noise"]
      [] d.kind = "activation" /\ at # "noise" -> C9_NextStream(d)
      [] d.kind = "noise" -> C9_NextStream(d)
      [] d.kind = "expenses" ->
            IF cash > -20000 * 1000 /\ d.month < cfg.months
            THEN [scenario |-> d.scenario, month |-> d.month + 1, stream |-> 1, kind |-> "activation"]
            ELSE [scenario |-> d.scenario + 1, month |-> 1, stream |-> 1, kind |-> "activation"]
C9_DrawOrder ==
    [][ /\ Drew => drawn' = C9_Follows(drawn, pc, cash_reserve)
        /\ (gen' = gen) => drawn' = drawn
      ]_vars

\* C9 witness: the second stream's noise draw in the second scenario.
C9_Witness ==
    drawn = [scenario |-> 1, month |-> 1, stream |-> 2, kind |-> "noise"]

\* C10 (invalid stream parameters rejected up front): with a stream whose
\* monthly_upside < monthly_base, or whose probability_active or volatility is
\* negative, no scenario is simulated and no draw is made.
C10_ValidStream(st) ==
    /\ st.monthly_upside >= st.monthly_base
    /\ st.probability_active >= 0
    /\ st.volatility >= 0
C10_RejectedUpFront ==
    (\E i \in 1..NumStreams : ~C10_ValidStream(cfg.streams[i])) =>
        (drawn = NoDraw /\ results = << >> /\ returned = << >>)

(***************************************************************************)
(* Claims about reseeding, checked under SpecDet.                          *)
(***************************************************************************)
\* C1 (determinism): each entry point reseeds the generator on entry, so its
\* second invocation returns what its first returned (the same ScenarioResult
\* list and report, the same result record), whatever was drawn in between.
C1_Determinism ==
    Len(returned) = 2 => returned[1] = returned[2]

\* C1 witness: both invocations have returned, other code drew from the
\* generator between them, and the run consumed draws of its own.
C1_Witness ==
    /\ Len(returned) = 2
    /\ Len(gen.tape) > gen.pos /\ gen.pos > 1

(***************************************************************************)
(* Claims about the report, checked under SpecReport.                      *)
(***************************************************************************)
\* C5 (cluster partition): every scenario falls in exactly one of the four
\* final-cash bands, so the four cluster counts add up to the number of
\* scenarios.
C5_ClusterPartition ==
    report_out # << >> =>
        LET r == report_out[1]
        IN  /\ r.catastrophic + r.struggling + r.surviving + r.thriving = Len(report_in)
            /\ \A i \in 1..Len(report_in) :
                  Cardinality({b \in 1..4 :
                      CASE b = 1 -> IsCatastrophic(report_in[i])
                        [] b = 2 -> IsStruggling(report_in[i])
                        [] b = 3 -> IsSurviving(report_in[i])
                        [] b = 4 -> IsThriving(report_in[i])}) = 1

\* C5 witness: a report over scenarios of all four bands, with final cash on
\* the thresholds -10000 and 50000.
C5_Witness ==
    /\ report_out # << >>
    /\ report_out[1].catastrophic = 1 /\ report_out[1].struggling = 1
    /\ report_out[1].surviving = 1 /\ report_out[1].thriving = 1
    /\ \E i, j \in 1..Len(report_in) :
          report_in[i].final_cash = -10000 * 1000 /\ report_in[j].final_cash = 50000 * 1000

\* C6 (percentile ordering): for a non-empty scenario set the percentiles taken
\* at index floor(N * f) of the sorted final-cash values satisfy
\* P5 <= P25 <= P50 <= P75 <= P95, and every index used lies within the list.
C6_PercentileOrdering ==
    report_out # << >> =>
        LET r == report_out[1]
        IN  /\ r.p5 <= r.p25 /\ r.p25 <= r.p50 /\ r.p50 <= r.p75 /\ r.p75 <= r.p95
            /\ \A f \in {5, 25, 50, 75, 95} :
                  /\ 0 <= PctIndex(Len(report_in), f)
                  /\ PctIndex(Len(report_in), f) < Len(report_in)

\* C6 witness: an unsorted list of scenarios whose percentiles are not all equal.
C6_Witness ==
    /\ report_out # << >>
    /\ Len(report_in) >= 3
    /\ report_in[1].final_cash > report_in[2].final_cash
    /\ report_out[1].p5 < report_out[1].p50 /\ report_out[1].p50 < report_out[1].p95

(***************************************************************************)
(* Claims about run_dependency_graph, checked under SpecGraph.             *)
(***************************************************************************)
\* The run has returned its report.
GraphDone == entry = "run_dependency_graph" /\ pc = "idle" /\ returned # << >>
\* The scores and the true SPOFs have been computed.
Classified == entry = "run_dependency_graph" /\ (pc \in {"pairs", "walk", "retain", "format"} \/ GraphDone)
\* Some edge names a source or a destination that is not a declared node.
Dangling(d) ==
    \E i \in 1..Len(d.edges) : ~Declared(d, d.edges[i][1]) \/ ~Declared(d, d.edges[i][2])

\* C11 (graph referential integrity): when an edge names an undeclared node,
\* construction fails with a referential-integrity error: the graph never
\* holds a node that was not declared, and the run does not get past the
\* construction without that error.
C11_ReferentialIntegrity ==
    (nx /\ Dangling(deps)) =>
        /\ \A i \in 1..Len(G.nodes) : Declared(deps, G.nodes[i])
        /\ (pc \notin {"idle", "edges"} => error = "ReferentialIntegrityError")

\* C12 (path length floor): every entry of critical_paths has at least three
\* nodes.
C12_PathLengthFloor ==
    \A i \in 1..Len(critical_paths) : Len(critical_paths[i][1]) >= 3

\* A pair connected both directly and through a third node has been
\* processed: the direct path was found and only the longer one retained.
C12_Witness ==
    /\ pc = "pairs"
    /\ \E i \in 1..Len(paths) : Len(paths[i]) = 2
    /\ \E i \in 1..Len(paths) : Len(paths[i]) >= 3
    /\ \E k \in 1..Len(critical_paths) : InSeq(critical_paths[k][1], paths)
    /\ \A k \in 1..Len(critical_paths) : Len(critical_paths[k][1]) # 2

\* No node occurs twice on the path under construction or on a path found.
NoRevisit ==
    /\ \A i, j \in 1..Len(walk.path) : i # j => walk.path[i] # walk.path[j]
    /\ \A k \in 1..Len(paths) :
          \A i, j \in 1..Len(paths[k]) : i # j => paths[k][i] # paths[k][j]

\* Two distinct nodes of G lie on a common cycle.
Cyclic(g) ==
    \E i, j \in 1..Len(g.nodes) :
        Reaches(g, g.nodes[i], g.nodes[j]) /\ Reaches(g, g.nodes[j], g.nodes[i])
\* Some node of G has an edge to itself.
SelfLoop(g) == \E i \in 1..Len(g.edges) : g.edges[i][1] = g.edges[i][2]

\* C13 (cycle-safe path enumeration): a path under construction never
\* revisits a node, and the enumeration, once begun, comes to its end (the
\* ranking of the paths) for every graph, cyclic ones included.
C13_CycleSafeEnumeration ==
    /\ []NoRevisit
    /\ (pc = "pairs") ~> (pc = "format")

\* The enumeration has ended on a graph with a cycle and a self-loop, having
\* found paths.
C13_Witness ==
    /\ pc = "format" /\ Cyclic(G) /\ SelfLoop(G)
    /\ critical_paths # << >>

\* The number of simple paths of g with three nodes and more, over every
\* ordered pair of distinct nodes.
LongPathCount(g) ==
    Total([k \in (1..Len(g.nodes)) \X (1..Len(g.nodes)) |->
             IF k[1] = k[2] THEN 0
             ELSE Cardinality({p \in SimplePaths(g, g.nodes[k[1]], g.nodes[k[2]]) : Len(p) >= 3})])

\* C14 (critical-path ranking): once ranked, critical_paths is in order of
\* non-increasing weight and holds every retained path; the report shows
\* exactly its first K = 10 entries, so no path left out is heavier than one
\* shown.
C14_Ranking ==
    /\ ((entry = "run_dependency_graph" /\ pc = "format") \/ GraphDone) =>
          /\ \A i, j \in 1..Len(critical_paths) :
                i < j => critical_paths[i][2] >= critical_paths[j][2]
          /\ Len(critical_paths) = LongPathCount(G)
    /\ GraphDone =>
          LET shown == Last(returned).paths
          IN  /\ Len(shown) = Min(10, Len(critical_paths))
              /\ \A i \in 1..Len(shown) :
                    /\ shown[i].path = critical_paths[i][1]
                    /\ shown[i].weight = critical_paths[i][2]
              /\ \A i \in 1..Len(shown) : \A j \in (Len(shown) + 1)..Len(critical_paths) :
                    critical_paths[j][2] <= shown[i].weight

\* A report of a graph with more than ten critical paths of several weights.
C14_Witness ==
    /\ GraphDone
    /\ Len(critical_paths) > 10
    /\ Len(Last(returned).paths) = 10
    /\ critical_paths[1][2] > critical_paths[Len(critical_paths)][2]

\* The chain of the example: A -> B -> C, weights 5 and 5, A critical and
\* without alternatives.
IsChainExample(d) ==
    /\ Len(d.nodes) = 3
    /\ d.nodes[1] = Vendor("A", "critical", 0)
    /\ d.nodes[2].id = "B" /\ d.nodes[3].id = "C"
    /\ d.edges = << <<"A", "B", 5>>, <<"B", "C", 5>> >>

\* C15 (graph example): for the chain A -> B -> C with weights 5 and 5, A
\* critical and without alternatives, a score is produced for A and
\* critical_paths holds exactly one entry, the path [A, B, C] of weight 10.
C15_GraphExample ==
    (GraphDone /\ IsChainExample(deps)) =>
        /\ "A" \in DOMAIN spof_scores
        /\ critical_paths = << << <<"A", "B", "C">>, 10 >> >>

\* The run on the chain has returned; B and C list alternatives.
C15_Witness ==
    /\ GraphDone /\ IsChainExample(deps)
    /\ deps.nodes[2].alternatives > 0
    /\ spof_scores["A"] > 0

\* C16 (true SPOF classification): a declared node is in true_spofs exactly
\* when it lists no alternative and its score is strictly above 10.0; a node
\* scoring exactly 10.0, or listing an alternative, is not.
C16_TrueSpofClassification ==
    Classified =>
        \A i \in 1..Len(deps.nodes) :
            LET v == deps.nodes[i]
            IN  /\ InSeq(v.id, true_spofs) <=> (v.alternatives = 0 /\ spof_scores[v.id] > 100)
                /\ (spof_scores[v.id] = 100 \/ v.alternatives >= 1) => ~InSeq(v.id, true_spofs)

\* A graph with a node without alternatives scoring exactly 10.0 and a node
\* with an alternative scoring above 10.0 has been classified.
C16_Witness ==
    /\ Classified
    /\ \E i \in 1..Len(deps.nodes) :
          deps.nodes[i].alternatives = 0 /\ spof_scores[deps.nodes[i].id] = 100
    /\ \E i \in 1..Len(deps.nodes) :
          deps.nodes[i].alternatives > 0 /\ spof_scores[deps.nodes[i].id] > 100

\* u and v are alike in everything the score reads but the alternatives:
\* u lists none, v lists some.
Twins(u, v) ==
    /\ betweenness[u.id] = betweenness[v.id]
    /\ closeness[u.id] = closeness[v.id]
    /\ out_degree[u.id] = out_degree[v.id]
    /\ u.criticality = v.criticality
    /\ u.alternatives = 0 /\ v.alternatives > 0
\* The weighted sum the penalty multiplies is not zero.
BaseNonzero(u) ==
    \/ betweenness[u.id].num > 0 \/ closeness[u.id].num > 0 \/ out_degree[u.id] > 0
    \/ CriticalityWeight(u.criticality) > 0

\* C17 (SPOF monotonicity): of two nodes that differ only in their number of
\* alternatives (none against some) and whose base score is not zero, the one
\* without alternatives has the strictly higher reported score.
C17_SpofMonotonicity ==
    Classified =>
        \A i, j \in 1..Len(deps.nodes) :
            (Twins(deps.nodes[i], deps.nodes[j]) /\ BaseNonzero(deps.nodes[i])) =>
                spof_scores[deps.nodes[i].id] > spof_scores[deps.nodes[j].id]

\* Twin nodes with a positive out-degree have been scored.
C17_Witness ==
    /\ Classified
    /\ \E i, j \in 1..Len(deps.nodes) :
          /\ Twins(deps.nodes[i], deps.nodes[j])
          /\ out_degree[deps.nodes[i].id] > 0
          /\ spof_scores[deps.nodes[j].id] > 0

\* C18 (empty graph): with no nodes and no edges the run raises nothing, and
\* the centrality mappings, the score mapping, the true-SPOF list and the
\* critical-path list are empty, up to and including the returned report.
C18_EmptyGraph ==
    (nx /\ deps.nodes = << >> /\ deps.edges = << >>) =>
        /\ error = "none" /\ pc \notin {"raised", "exit"}
        /\ DOMAIN betweenness = {} /\ DOMAIN closeness = {}
        /\ DOMAIN in_degree = {} /\ DOMAIN out_degree = {}
        /\ DOMAIN spof_scores = {}
        /\ true_spofs = << >> /\ critical_paths = << >>
        /\ GraphDone => /\ Last(returned).vendors = 0
                        /\ Last(returned).scores = << >>
                        /\ Last(returned).paths = << >>

\* The run on the empty graph has returned its report.
C18_Witness ==
    /\ GraphDone /\ deps.nodes = << >> /\ deps.edges = << >>
    /\ Last(returned).true_spofs = 0

\* A path-count budget the enumeration is asked to keep to.
PathBudget == 20

\* C20 (bounded path enumeration): the enumeration keeps to its budget: it
\* never holds more paths than the budget allows, stopping there with the
\* paths found so far.
C20_BudgetHonoured ==
    Len(critical_paths) + (IF pc = "walk" THEN Len(paths) ELSE 0) <= PathBudget

(***************************************************************************)
(* Claims about both engines, checked under SpecMain.                      *)
(***************************************************************************)
\* A month without revenue is closed: no violation is counted and the run
\* goes on to the survival check.
ZeroMonthIsNoViolation ==
    (pc = "expenses" /\ month_revenue = 0 /\ pc' # pc) =>
        /\ concentration_violations' = concentration_violations
        /\ pc' = "survival"

\* In a scored graph whose weighted out-degrees are all 0, every score is the
\* score with an out-degree term of 0.
ZeroOutDegreeTerm ==
    (Classified /\ \A v \in DOMAIN out_degree : out_degree[v] = 0) =>
        \A i \in 1..Len(deps.nodes) :
            LET v == deps.nodes[i]
            IN  spof_scores[v.id] =
                    SpofScore(betweenness[v.id], closeness[v.id], [num |-> 0, den |-> 1],
                              CriticalityWeight(v.criticality),
                              AlternativesPenalty(v.alternatives))

\* In a report over results whose stream totals sum to 0, every stream's
\* contribution is 0.
ZeroTotalContribution ==
    \A k \in 1..Len(returned) :
        (entry = "run_monte_carlo" /\ AllStreamsSum(returned[k].results) = 0) =>
            \A i \in 1..NumStreams : returned[k].report.contribution[i] = 0

\* C19 (division-by-zero guards): a month whose revenue is 0 adds no
\* concentration violation and the run continues; in a graph without edges
\* the out-degree term of every score is 0; when the per-stream totals sum to
\* 0 every contribution percentage is 0.
C19_DivisionGuards ==
    /\ [][ZeroMonthIsNoViolation]_vars
    /\ [](ZeroOutDegreeTerm /\ ZeroTotalContribution)

\* A run in which no stream earned anything has returned its report: its last
\* month had no revenue, no violation was counted, every contribution is 0.
C19_Witness ==
    /\ entry = "run_monte_carlo" /\ pc = "idle" /\ returned # << >>
    /\ month_revenue = 0 /\ month >= 1
    /\ AllStreamsSum(Last(returned).results) = 0
    /\ \A i \in 1..NumStreams : Last(returned).report.contribution[i] = 0
    /\ \A k \in 1..Len(results) : results[k].concentration_violations = 0

(***************************************************************************)
(* Claims about main(), checked under SpecCli.                             *)
(***************************************************************************)
\* The handler a command is routed to; ingest has none of its own in the
\* source, so any handler counts for it.
RoutedTo(cmd, h) ==
    CASE cmd = "decision"   -> h = "tier1_decision"
      [] cmd = "montecarlo" -> h = "run_monte_carlo"
      [] cmd = "depgraph"   -> h = "run_dependency_graph"
      [] cmd = "ingest"     -> h # "none"
      [] OTHER              -> h = "run_command"

\* An error raised by main itself: no handler had been entered.
DispatcherError == error # "none" /\ handler = "none"

\* C21 (CLI dispatch): once main has acted on its command line, a missing or
\* unknown command has exited with status 0, decision without a context has
\* exited with status 1, and every documented command (decision with a
\* context) has been routed to its handler without an error of the dispatcher.
C21_CliDispatch ==
    (pc # "main") =>
        IF Len(argv) < 1 THEN exit_status = 0 /\ handler = "none"
        ELSE IF argv[1] \notin Documented THEN exit_status = 0 /\ handler = "none"
        ELSE IF argv[1] = "decision" /\ Len(argv) < 2
             THEN exit_status = 1 /\ handler = "none"
        ELSE RoutedTo(argv[1], handler) /\ ~DispatcherError

(***************************************************************************)
(* Claims about decision_compress, checked under SpecCompress.             *)
(***************************************************************************)
Compressed == entry = "decision_compress" /\ pc = "idle" /\ returned # << >>

\* The list is in non-increasing order of priority_score.
NonIncreasing(out) ==
    \A i, j \in 1..Len(out) : i < j => out[i].priority_score >= out[j].priority_score

\* Of two entries with the same impact and urgency, the one whose effort is
\* lower by at least `by` tenths comes first.
LowerEffortFirst(out, by) ==
    \A i, j \in 1..Len(out) :
        (/\ out[i].impact = out[j].impact /\ out[i].urgency = out[j].urgency
         /\ out[i].effort + by <= out[j].effort) => i < j

\* Entries of the same priority_score are in the order in which they were
\* scored, which is the order of the input.
TiesInInputOrder(out) ==
    \A k \in 1..Len(out) :
        LET same(x) == x.priority_score = out[k].priority_score
        IN  SelectSeq(out, same) = SelectSeq(scored, same)

\* C22 as stated (decision_compress ordering): the returned list is in
\* non-increasing order of priority_score, and with equal impact and urgency
\* a task of lower effort comes first.
C22_LowerEffortAlwaysFirst ==
    Compressed =>
        /\ NonIncreasing(Last(returned))
        /\ LowerEffortFirst(Last(returned), 1)

\* C22 as amended: the returned list is in non-increasing order of
\* priority_score, entries of equal priority_score keep their input order,
\* and with equal impact and urgency a task whose effort is lower by 1 or
\* more comes first.
C22_OrderedByPriorityScore ==
    Compressed =>
        /\ NonIncreasing(Last(returned))
        /\ TiesInInputOrder(Last(returned))
        /\ LowerEffortFirst(Last(returned), 10)

\* A returned list that is not in input order: "hard" was given ahead of
\* "easy" and comes after it, while "fiddly" and "easy", of one
\* priority_score, stayed as given.
C22_Witness ==
    /\ Compressed /\ Len(tasks) = 3
    /\ tasks[1].name = "hard" /\ tasks[2].name = "fiddly" /\ tasks[3].name = "easy"
    /\ Last(returned)[1].name = "fiddly" /\ Last(returned)[2].name = "easy"
    /\ Last(returned)[3].name = "hard"

\* An entry without its priority_score.
AsGiven(x) == Task(x.name, x.impact, x.urgency, x.effort)

\* C23 (decision_compress preservation): the returned list has exactly one
\* entry per input task (none for an empty input), each carrying the task's
\* name, impact, urgency and effort unchanged and a priority_score, and the
\* input is not modified.
C23_Preservation ==
    /\ [][tasks' = tasks]_vars
    /\ [](Compressed =>
            LET out == Last(returned)
            IN  /\ Len(out) = Len(tasks)
                /\ tasks = << >> => out = << >>
                /\ \A k \in 1..Len(out) :
                      DOMAIN out[k] = {"name", "impact", "urgency", "effort", "priority_score"}
                /\ \A t \in Range(tasks) :
                      Cardinality({k \in 1..Len(out) : AsGiven(out[k]) = t})
                          = Cardinality({k \in 1..Len(tasks) : tasks[k] = t}))

\* A list with a repeated task has been returned in another order.
C23_Witness ==
    /\ Compressed /\ Len(tasks) >= 3
    /\ tasks[1] = tasks[3] /\ tasks[1] # tasks[2]
    /\ AsGiven(Last(returned)[1]) = tasks[2]
    /\ AsGiven(Last(returned)[2]) = tasks[1] /\ AsGiven(Last(returned)[3]) = tasks[1]

(***************************************************************************)
(* Claims about build_dependency_graph, checked under SpecDocs and         *)
(* SpecDocsLive.                                                           *)
(***************************************************************************)
Built == entry = "build_dependency_graph" /\ returned # << >>

\* C24 (demo document graph integrity): in the returned graph every entry
\* of every document's depends_on names a document of the graph other than
\* the document itself.
C24_DocumentGraphIntegrity ==
    Built =>
        \A k \in 1..Len(returned[1]) :
            \A j \in 1..Len(returned[1][k].depends_on) :
                /\ HasDocument(returned[1], returned[1][k].depends_on[j])
                /\ returned[1][k].depends_on[j] # returned[1][k].id

\* The reader has gone from a document to another one over a link.
C24_Witness ==
    /\ Built /\ Len(returned[1]) = NumDocs
    /\ pc = "reading" /\ doc_at # doc_from
    /\ HasDocument(returned[1], doc_at)

\* The number of a document of the graph: its place in the graph.
NumberOf(g, id) == CHOOSE k \in 1..Len(g) : g[k].id = id

\* In the returned graph DOC-i is the i-th entry, each of its dependencies is
\* one of its three immediate predecessors, and DOC-001 has none.
Layered ==
    Built =>
        /\ \A i \in 1..Len(returned[1]) :
              /\ returned[1][i].id = DocId(i)
              /\ \A j \in 1..Len(returned[1][i].depends_on) :
                    \E p \in 1..3 : /\ i - p >= 1
                                    /\ returned[1][i].depends_on[j] = returned[1][i - p].id
        /\ returned[1][1].id = "DOC-001" /\ returned[1][1].depends_on = << >>

\* A link leads to a document of a smaller number.
Descends ==
    (pc = "reading" /\ doc_at' # doc_at) =>
        NumberOf(returned[1], doc_at') < NumberOf(returned[1], doc_at)

\* C30 (demo document graph is acyclic and layered by index): every
\* dependency of DOC-i is one of its (at most) three immediate predecessors,
\* DOC-001 has no dependencies, and a reader following depends_on links from
\* any document goes to ever smaller numbers and comes to a stop, at DOC-001.
C30_LayeredAndAcyclic ==
    /\ []Layered
    /\ [][Descends]_vars
    /\ [](pc = "read" => doc_at = "DOC-001")
    /\ (pc = "reading") ~> (pc = "read")

\* A reader who opened the last document has stopped at DOC-001.
C30_Witness ==
    Built /\ pc = "read" /\ doc_from = DocId(NumDocs) /\ doc_at = DocId(1)

(***************************************************************************)
(* Claims about the stop rules and the survival check of run_monte_carlo,  *)
(* checked under SpecRules.                                                *)
(***************************************************************************)
\* The trajectory of the current scenario has ended and its result is the
\* last of results.
Emitted == entry = "run_monte_carlo" /\ pc = "scenario" /\ results # << >>

\* The months of the current scenario whose reserve, after the month's
\* revenue and expenses, is strictly below the floor.
BreachMonths ==
    {k \in 1..Len(reserve_log) : reserve_log[k] < cfg.liquidity_floor * 1000}

\* C25 (liquidity breach counting): liquidity_breaches is the number of
\* simulated months whose reserve after revenue and expenses is strictly
\* below liquidity_floor; a month is counted before its survival check, the
\* month in which the trajectory ends included, and the ScenarioResult
\* carries that number.
C25_LiquidityBreaches ==
    /\ liquidity_breaches = Cardinality(BreachMonths)
    /\ pc = "survival" => Len(reserve_log) = month
    /\ Emitted =>
          /\ Last(results).liquidity_breaches = Cardinality(BreachMonths)
          /\ Len(reserve_log) = Min(cfg.months, Last(results).months_survived + 1)

\* A trajectory that ended in its third month: the reserve of the first month
\* was on the floor and is not counted, the month of the ending is.
C25_Witness ==
    /\ Emitted /\ cfg.liquidity_floor = 0
    /\ reserve_log = <<0, -10000 * 1000, -20000 * 1000>>
    /\ Last(results).months_survived = 2
    /\ BreachMonths = {2, 3} /\ Last(results).liquidity_breaches = 2

\* The revenue of stream i and of all streams in month k of the scenario.
StreamIn(i, k) == stream_revenues[i][k]
\* The months of the current scenario with revenue whose largest stream has a
\* share strictly above the cap.
ViolationMonths ==
    {k \in 1..Len(monthly_totals) :
        /\ monthly_totals[k] > 0
        /\ \E i \in 1..NumStreams :
              StreamIn(i, k) * 100 > cfg.concentration_cap * monthly_totals[k]}

\* At the close of the month exactly one stream has earned something.
SingleEarner ==
    pc = "expenses" /\ Cardinality({i \in 1..NumStreams : month_by_stream[i] > 0}) = 1
\* At the close of the month the largest share is exactly the cap.
ShareOnCap ==
    /\ pc = "expenses" /\ month_revenue > 0
    /\ SeqMax(month_by_stream) * 100 = cfg.concentration_cap * month_revenue

C29_FreshStateAndBounds ==
    /\ (entry = "run_monte_carlo" /\ pc = "month" /\ month = 0) =>
          /\ cash_reserve = 0 /\ months_survived = 0
          /\ liquidity_breaches = 0 /\ concentration_violations = 0
    /\ \A i \in 1..Len(results) :
          LET simulated == Min(cfg.months, results[i].months_survived + 1)
          IN  /\ 0 <= results[i].liquidity_breaches
              /\ results[i].liquidity_breaches <= simulated
              /\ 0 <= results[i].concentration_violations
              /\ results[i].concentration_violations <= simulated

\* A scenario starts after one that ended with both counters at the number
\* of its months and a reserve other than 0.
C29_Witness ==
    /\ entry = "run_monte_carlo" /\ pc = "month" /\ month = 0 /\ scenario_id >= 1
    /\ Last(results).liquidity_breaches = Min(cfg.months, Last(results).months_survived + 1)
    /\ Last(results).concentration_violations = Last(results).liquidity_breaches
    /\ Last(results).final_cash # 0

(***************************************************************************)
(* Claims about the enumerated paths, checked under SpecGraph.             *)
(***************************************************************************)
\* The path loops have run to their end.
Enumerated == entry = "run_dependency_graph" /\ (pc = "format" \/ GraphDone)

\* The edges of G from a to b (at most one in a DiGraph).
EdgesBetween(a, b) == {i \in 1..Len(G.edges) : G.edges[i][1] = a /\ G.edges[i][2] = b}

\* The simple paths of three nodes and more from s to t.
LongPaths(s, t) == {p \in SimplePaths(G, s, t) : Len(p) >= 3}

\* C27 (critical path validity): every entry of critical_paths is a sequence
\* of pairwise distinct nodes whose consecutive pairs are edges of the graph,
\* with the sum of the weights of those edges as its weight; for every
\* ordered pair of distinct nodes every simple path of three nodes and more
\* between them is there exactly once; a pair without a connecting path adds
\* nothing, and the enumeration ends without an error.
C27_CriticalPathValidity ==
    Enumerated =>
        /\ error = "none"
        /\ \A k \in 1..Len(critical_paths) :
              LET p == critical_paths[k][1]
              IN  /\ Len(p) >= 3
                  /\ \A i, j \in 1..Len(p) : i # j => p[i] # p[j]
                  /\ \A i \in 1..(Len(p) - 1) : EdgesBetween(p[i], p[i + 1]) # {}
                  /\ critical_paths[k][2] =
                        Total([e \in 1..Len(G.edges) |->
                                 IF \E i \in 1..(Len(p) - 1) : e \in EdgesBetween(p[i], p[i + 1])
                                 THEN G.edges[e][3] ELSE 0])
        /\ \A s, t \in Range(G.nodes) :
              IF s = t \/ ~Reaches(G, s, t)
              THEN \A k \in 1..Len(critical_paths) :
                      LET p == critical_paths[k][1]
                      IN  ~(p[1] = s /\ p[Len(p)] = t)
              ELSE \A p \in LongPaths(s, t) :
                      Cardinality({k \in 1..Len(critical_paths) : critical_paths[k][1] = p}) = 1

\* The enumeration over the shipped graph has ended: it found paths, some
\* pair of its nodes has no connecting path, and some pair has both a direct
\* edge, which is not listed, and a longer path, which is.
C27_Witness ==
    /\ Enumerated /\ deps = VENDOR_DEPENDENCIES
    /\ Len(critical_paths) >= 2
    /\ \E s, t \in Range(G.nodes) : s # t /\ ~Reaches(G, s, t)
    /\ \E s, t \in Range(G.nodes) :
          LongPaths(s, t) # {} /\ LongPaths(s, t) # SimplePaths(G, s, t)

====
